---- MODULE Spec2Model ----
(***************************************************************************)
(* NiceThumbsBuddy / Soulful Thumbs autoindex gallery.                     *)
(*                                                                         *)
(* Three parts of the page are modelled, each with its own variables:      *)
(*   createMetadataManager of NiceThumbsBuddy.user.js: the in-memory       *)
(*     cache, its sessionStorage mirror, the throttled persist, the header *)
(*     probes and the toasts.  SpecProbe explores the observer and the     *)
(*     probes with a storage that accepts every write; SpecStore explores  *)
(*     the persist, the storage's failures and the page loads.             *)
(*   setupLightbox of soulful-thumbs-2.1.1.user.js: SpecLightbox.          *)
(*   looksLikeAutoIndex of NiceThumbsBuddy.user.js: SpecDetect.            *)
(*   debounce of NiceThumbsBuddy.user.js: SpecDebounce.                    *)
(*   The sitemap crawler, of which the userscripts hold the limits only:   *)
(*     SpecCrawl follows its description.                                  *)
(*   SpecLive and SpecCleanup are SpecProbe's page with a clock that runs  *)
(*     on to the pending timers, with fairness and with cleanup().         *)
(* A specification leaves the other parts' variables as they start.        *)
(* Times are milliseconds.                                                 *)
(***************************************************************************)
EXTENDS Integers, Sequences, FiniteSets, TLC

VARIABLES
    now,          \* Date.now()
    cache,        \* createMetadataManager: cache (Map, in insertion order)
    session,      \* sessionStorage: ntb-metadata-cache / ntb-metadata-expiry
    advPref,      \* localStorage[LSK.adv]
    inFlight,     \* createMetadataManager: inFlight (Map url -> true)
    probes,       \* running fetchMetadata calls started by the observer
    lastCall,     \* throttle closure of saveThrottled: lastCall
    observing,    \* the IntersectionObserver is connected to the elements
    toasts,       \* .ntb-notification elements of document.body, in order
    toastTimers,  \* pending auto-dismiss timers of showNotification
    toastSeq,     \* number of toasts created so far (element identity)
    anonPuts,     \* records put under URLs outside URLS so far
    reloads,      \* page loads after the first one
    loaded        \* history: what the construction read and decided, until
                  \* the page handles its first event

VARIABLES
    lbOn,            \* setupLightbox: box has the class 'on'
    st,              \* setupLightbox: st (z, x, y, w, h; min and max are fixed)
    lastFocus,       \* setupLightbox: lastFocus
    lbIndex,         \* setupLightbox: i, counted from 1 (0: none)
    openTimers,      \* pending setTimeout(..., 0) callbacks of openAt
    innerC,          \* setupLightbox: innerCX, innerCY
    allowPlainWheel, \* setupLightbox: allowPlainWheel
    focus,           \* document.activeElement
    opener,          \* history: the element focused when the lightbox opened
    zooms            \* number of zoomTo calls so far

lbVars == <<lbOn, st, lastFocus, lbIndex, openTimers, innerC, allowPlainWheel,
            focus, opener, zooms>>

VARIABLES
    doc,             \* the document looksLikeAutoIndex is given
    verdict          \* what looksLikeAutoIndex returned for it ("none": not called)

detVars == <<doc, verdict>>

VARIABLES
    listing,         \* the anchors parseIndex finds in the document, in order
    parsed           \* what parseIndex returned for them

parseVars == <<listing, parsed>>

VARIABLES
    profile,         \* localStorage of the browser profile: the keys it holds
    pages,           \* the tabs of the profile and what the userscript left on each
    clock,           \* ms since the first page load of the profile
    loads,           \* page loads so far
    welcomes         \* history: welcome notifications displayed so far

bootVars == <<profile, pages, clock, loads, welcomes>>

VARIABLES
    served,          \* history: the children of document.body the server sent
    body,            \* the children of document.body, in order
    renderer         \* the gallery that has rendered on the page ("none": none)

renderVars == <<served, body, renderer>>

VARIABLES
    prefs,           \* the backing store of getPref/setPref: key -> stored string
    limits,          \* MAX_ITEMS_PAGE, SCAN_CONCURRENCY, IO_THRESHOLD of the page
    call,            \* history: the last call of getPref or setPref
    clicks           \* clicks on the Limits button so far

prefVars == <<prefs, limits, call, clicks>>

VARIABLES
    fragments,       \* the source fragments on disk, in the order of files
    artifact,        \* NiceThumbsBuddy.user.js on disk
    build            \* the run of the build script: pc, the texts read, its output

buildVars == <<fragments, artifact, build>>

VARIABLES
    crawl            \* the sitemap crawler's session (CrawlState and its tree)

crawlVars == <<crawl>>

VARIABLES
    deb              \* a debounced function: its clock, its pending timeout,
                     \* and the history of its calls and of the runs of fn

debVars == <<deb>>

metaVars == <<now, cache, session, advPref, inFlight, probes, lastCall,
              observing, toasts, toastTimers, toastSeq, anonPuts, reloads,
              loaded>>

vars == <<metaVars, lbVars, detVars, parseVars, bootVars, renderVars, prefVars, buildVars, crawlVars, debVars>>
besidesMeta == <<lbVars, detVars, parseVars, bootVars, renderVars, prefVars, buildVars, crawlVars, debVars>>
besidesLb == <<metaVars, detVars, parseVars, bootVars, renderVars, prefVars, buildVars, crawlVars, debVars>>
besidesDetect == <<metaVars, lbVars, parseVars, bootVars, renderVars, prefVars, buildVars, crawlVars, debVars>>
besidesParse == <<metaVars, lbVars, detVars, bootVars, renderVars, prefVars, buildVars, crawlVars, debVars>>
besidesBoot == <<metaVars, lbVars, detVars, parseVars, renderVars, prefVars, buildVars, crawlVars, debVars>>
besidesRender == <<metaVars, lbVars, detVars, parseVars, bootVars, prefVars, buildVars, crawlVars, debVars>>
besidesPrefs == <<metaVars, lbVars, detVars, parseVars, bootVars, renderVars, buildVars, crawlVars, debVars>>
besidesBuild == <<metaVars, lbVars, detVars, parseVars, bootVars, renderVars, prefVars, crawlVars, debVars>>
besidesCrawl == <<metaVars, lbVars, detVars, parseVars, bootVars, renderVars, prefVars, buildVars, debVars>>
besidesDebounce == <<metaVars, lbVars, detVars, parseVars, bootVars, renderVars, prefVars, buildVars, crawlVars>>

(***************************************************************************)
(* Program constants.                                                      *)
(***************************************************************************)
CACHE_EXPIRY == 7200000
CACHE_MAX_SIZE == 10000
SAVE_THROTTLE_MS == 1000
PROBE_TIMEOUT_MS == 5000
RETRY_DELAY_MS == 1000
NOTIFY_DURATION_MS == 3000
WELCOME_DURATION_MS == 5000
WELCOME_DELAY_MS == 1000
LIMITS_POLL_MS == 500
MAX_ITEMS_PAGE == 12000
FALLBACK_W == 800      \* openAt: img.naturalWidth || 800
FALLBACK_H == 600      \* openAt: img.naturalHeight || 600

(***************************************************************************)
(* Bounds of the model.                                                    *)
(***************************************************************************)
StartTime == 1000000   \* Date.now() when the page is constructed first
MaxTicks == 5          \* clock steps explored after StartTime in SpecProbe
MaxLiveTicks == 2      \* seconds in which the events of SpecLive arrive
MaxStoreTicks == 3     \* the same in SpecStore
MaxProbes == 3         \* fetchMetadata calls running at the same time
MaxToasts == 1         \* toasts created by one page
MaxShown == 3          \* showNotification calls of one page in SpecToast
MaxToastTicks == 6     \* clock steps explored after StartTime in SpecToast
MaxBody == 3           \* children of document.body the server sends
MaxClicks == 1         \* clicks on the Limits button in SpecPrefs
MaxLoads == 3          \* page loads of one profile in SpecBoot
MaxBootTicks == 14     \* poll intervals of clock explored in SpecBoot
MaxReloads == 1        \* page loads after the first one
MaxAnonPuts == 2       \* records put under URLs outside URLS
MaxZooms == 2          \* zoomTo calls in one run of the lightbox
MaxOpenTimers == 1     \* openAt callbacks pending at the same time
ZUNIT == 1000          \* the scale st.z is counted in 1/ZUNIT
VIEW_W == 800          \* wrap.clientWidth, the width of wrap's rectangle
VIEW_H == 600          \* wrap.clientHeight, the height of wrap's rectangle

URLS == {"a.jpg", "b.jpg"}      \* data-url of the observed elements
Anon == "*"                     \* any URL other than those of URLS
NoUrl == ""
Undefined == 0 - 1              \* a field the record does not have
DIMS == {<<0, 0>>, <<800, 600>>}   \* naturalWidth, naturalHeight of an image
LOADED_DIMS == {<<800, 600>>}      \* those of an image that has loaded

\* the clock's step between two events: the smallest delay the code tests
TickMs == SAVE_THROTTLE_MS

Min(a, b) == IF a < b THEN a ELSE b
Max(a, b) == IF a > b THEN a ELSE b

(***************************************************************************)
(* The cache.  A Map keeps its keys in insertion order; it is a sequence   *)
(* of entries [url, n, rec].  An entry of a URL of URLS has n = 1.  An     *)
(* entry of url Anon stands for n consecutive records of n distinct URLs   *)
(* outside URLS, which the model does not tell apart.                      *)
(***************************************************************************)
NoRec == [probed |-> FALSE,
          width |-> Undefined, height |-> Undefined]
DimRec(w, h) == [NoRec EXCEPT !.width = w, !.height = h]

RECURSIVE CacheSize(_)
CacheSize(c) == IF c = <<>> THEN 0 ELSE c[1].n + CacheSize(Tail(c))

IndexOf(c, u) == CHOOSE i \in 1..Len(c) : c[i].url = u
CacheHas(c, u) == u # Anon /\ \E i \in 1..Len(c) : c[i].url = u
\* cache.get(url) || {}
CacheGet(c, u) == IF CacheHas(c, u) THEN c[IndexOf(c, u)].rec ELSE NoRec

\* cache.set(url, rec): an existing key keeps its place, a new one goes last
CacheSet(c, u, r) ==
    IF CacheHas(c, u)
    THEN [c EXCEPT ![IndexOf(c, u)].rec = r]
    ELSE IF u = Anon /\ c # <<>> /\ c[Len(c)].url = Anon
         THEN [c EXCEPT ![Len(c)].n = @ + 1]
         ELSE Append(c, [url |-> u, n |-> 1, rec |-> r])

\* entries.slice(-k)
RECURSIVE SliceLast(_, _)
SliceLast(c, k) ==
    IF c = <<>> \/ k <= 0 THEN <<>>
    ELSE LET e == c[Len(c)]
             front == SubSeq(c, 1, Len(c) - 1)
         IN  IF e.n <= k
             THEN Append(SliceLast(front, k - e.n), e)
             ELSE <<[e EXCEPT !.n = k]>>

\* saveThrottled body, the pruning pass
Pruned(c) ==
    IF CacheSize(c) > CACHE_MAX_SIZE
    THEN SliceLast(c, (CACHE_MAX_SIZE * 8) \div 10)
    ELSE c

\* a variant that lets every call through
ThrottleDropsNone(t, last) == FALSE
\* throttle: "if (now - lastCall < ms) return"
ThrottleDrops(t, last) == t - last < SAVE_THROTTLE_MS

(***************************************************************************)
(* sessionStorage mirror.                                                  *)
(***************************************************************************)
NoSession == [payload |-> "absent", data |-> <<>>,
              hasExpiry |-> FALSE, expiry |-> 0]

\* parseInt(sessionStorage.getItem(storageExpiry) || '0', 10)
StoredExpiry(s) == IF s.hasExpiry THEN s.expiry ELSE 0

\* a variant that also accepts a mirror expiring at this very millisecond
ExpiryValidLax(expiry, t) == expiry >= t
\* "if (expiry > now)"
ExpiryValid(expiry, t) == expiry > t

\* the cache a construction at time t builds from the stored mirror s
LoadCache(s, t) ==
    IF ExpiryValid(StoredExpiry(s), t) /\ s.payload = "json"
    THEN s.data ELSE <<>>

\* the mirror after that construction: removed when expired or corrupted
LoadSession(s, t) ==
    IF ExpiryValid(StoredExpiry(s), t) /\ s.payload # "corrupt"
    THEN s ELSE NoSession

\* no construction has just run
NoLoad == [at |-> 0, hasExpiry |-> FALSE, expiry |-> 0, payload |-> "absent",
           stored |-> 0, size |-> 0, removed |-> FALSE, fresh |-> FALSE]

(***************************************************************************)
(* showNotification: toasts are [id, type, duration], duration being the   *)
(* argument its closures hold; a timer is [id, due].                       *)
(***************************************************************************)
\* a variant that leaves the existing toast in the document
ToastsAfterShowKept(ts, id, type, duration) ==
    Append(ts, [id |-> id, type |-> type, duration |-> duration])

\* "const existing = $('.ntb-notification'); if (existing) existing.remove()"
\* followed by document.body.appendChild(notification)
ToastsAfterShow(ts, id, type, duration) ==
    Append(IF ts = <<>> THEN ts ELSE Tail(ts),
           [id |-> id, type |-> type, duration |-> duration])

\* "if (duration > 0) setTimeout(..., duration)"
TimersAfterShow(tm, id, duration, t) ==
    IF duration > 0 THEN tm \cup {[id |-> id, due |-> t + duration]} ELSE tm

\* notification.remove()
RECURSIVE ToastsWithout(_, _)
ToastsWithout(ts, id) ==
    IF ts = <<>> THEN <<>>
    ELSE IF ts[1].id = id THEN ToastsWithout(Tail(ts), id)
         ELSE <<ts[1]>> \o ToastsWithout(Tail(ts), id)

(***************************************************************************)
(* saveThrottled().  c is the cache at the call, wr what sessionStorage    *)
(* does with the write: "ok", "quota" (setItem throws QuotaExceededError)  *)
(* or "error" (setItem throws anything else).  The result is the state     *)
(* the call leaves behind.                                                 *)
(***************************************************************************)
WRITES == {"ok", "quota", "error"}

\* a variant that leaves the cache as it is
QuotaKeepsCache(c) == c
\* catch branch of e.name === 'QuotaExceededError': cache.clear()
QuotaClearedCache(c) == <<>>

SaveResult(c, wr) ==
    LET base == [cache |-> c, session |-> session, lastCall |-> lastCall,
                 toasts |-> toasts, toastTimers |-> toastTimers,
                 toastSeq |-> toastSeq, ran |-> FALSE, outcome |-> "dropped",
                 raised |-> FALSE]
        p == Pruned(c)
    IN  IF ThrottleDrops(now, lastCall) THEN base
        ELSE IF wr = "ok" THEN
            [base EXCEPT !.cache = p, !.lastCall = now, !.ran = TRUE,
                         !.outcome = wr,
                         !.session = [payload |-> "json", data |-> p,
                                      hasExpiry |-> TRUE,
                                      expiry |-> now + CACHE_EXPIRY]]
        ELSE IF wr = "quota" THEN
            [base EXCEPT !.cache = QuotaClearedCache(p), !.lastCall = now,
                         !.ran = TRUE, !.outcome = wr,
                         !.session = NoSession,
                         !.toasts = ToastsAfterShow(toasts, toastSeq + 1, "warning",
                                                   NOTIFY_DURATION_MS),
                         !.toastTimers = TimersAfterShow(toastTimers, toastSeq + 1,
                                                         NOTIFY_DURATION_MS, now),
                         !.toastSeq = toastSeq + 1]
        ELSE
            [base EXCEPT !.cache = p, !.lastCall = now, !.ran = TRUE,
                         !.outcome = wr]

\* the writes the storage can answer with in this state
WriteChoices == IF toastSeq < MaxToasts THEN WRITES ELSE WRITES \ {"quota"}

\* a handler that put a record under u and then called saveThrottled()
PutAndSave(c, u, wr) ==
    LET r == SaveResult(c, wr)
    IN  /\ cache' = r.cache
        /\ session' = r.session
        /\ lastCall' = r.lastCall
        /\ toasts' = r.toasts
        /\ toastTimers' = r.toastTimers
        /\ toastSeq' = r.toastSeq

(***************************************************************************)
(* noteImageSize(url, width, height)                                       *)
(***************************************************************************)
\* a variant that takes every record as incomplete
DimsMissingAlways(r) == TRUE
\* "if (!existing.width || !existing.height)"
DimsMissing(r) == r.width <= 0 \/ r.height <= 0

\* "{ ...existing, width, height }"
WithDims(existing, d) == [existing EXCEPT !.width = d[1], !.height = d[2]]

\* a record that is complete makes the call return without a write
NoteImageSize(u, d, wr) ==
    /\ u # NoUrl
    /\ u = Anon => anonPuts < MaxAnonPuts
    /\ anonPuts' = IF u = Anon THEN anonPuts + 1 ELSE anonPuts
    /\ IF DimsMissing(CacheGet(cache, u))
       THEN PutAndSave(CacheSet(cache, u, WithDims(CacheGet(cache, u), d)),
                       u, wr)
       ELSE UNCHANGED <<cache, session, lastCall, toasts, toastTimers,
                        toastSeq>>
    /\ UNCHANGED <<now, advPref, inFlight, probes, observing, reloads>>
    /\ loaded' = NoLoad
    /\ UNCHANGED besidesMeta

(***************************************************************************)
(* The IntersectionObserver callback and fetchMetadata.  A probe is        *)
(* [url, retries, phase, due, sent, errs, slept]: phase "fetch" is         *)
(* awaiting fetch() (due: the abort timer), phase "sleep" is awaiting the  *)
(* retry delay (due: its end); sent counts the requests issued, errs lists *)
(* the errors caught so far and slept is the time between the failure and  *)
(* the retry.                                                              *)
(***************************************************************************)
AbortError == [name |-> "AbortError", net |-> FALSE]   \* controller.abort()
TypeError == [name |-> "TypeError", net |-> FALSE]     \* fetch() rejected
HttpError == [name |-> "Error", net |-> FALSE]         \* new Error(`HTTP ...`)
RangeError == [name |-> "RangeError", net |-> FALSE]   \* toISOString()

\* what a fetch() can answer with before it is aborted
RESPONSES == {"ok", "badDate", "http", "network"}

\* a variant that takes a record without probed fields as no record
ShouldProbeUnprobed(u) ==
    /\ u # NoUrl
    /\ ~(CacheHas(cache, u) /\ CacheGet(cache, u).probed)
    /\ u \notin inFlight
    /\ advPref # "false"

\* a variant without the inFlight test
ShouldProbeAnyway(u) == u # NoUrl /\ ~CacheHas(cache, u) /\ advPref # "false"
\* "if (!url || cache.has(url) || inFlight.has(url)) continue" and
\* "if (!advancedMeta) continue"
ShouldProbe(u) ==
    /\ u # NoUrl
    /\ ~CacheHas(cache, u)
    /\ u \notin inFlight
    /\ advPref # "false"

\* a variant that retries after any error
ShouldRetryAny(err, retries) == retries > 0
\* "retries > 0 && (error.name === 'TypeError' || error.message.includes('network'))"
ShouldRetry(err, retries) ==
    retries > 0 /\ (err.name = "TypeError" \/ err.net)

\* "{ ...metadata, fetchedAt: Date.now() }": the headers' fields and the
\* fetch time stand as probed; nothing of the existing record is kept
ProbeRecord(existing, t) ==
    [probed |-> TRUE, width |-> Undefined, height |-> Undefined]

\* a variant that leaves the URL marked
InFlightKept(fl, u) == fl
\* ".finally(() => { inFlight.delete(url); })"
InFlightDelete(fl, u) == fl \ {u}

RemoveAt(s, i) == SubSeq(s, 1, i - 1) \o SubSeq(s, i + 1, Len(s))

\* an observed element of data-url u is reported as intersecting
Visible(u) ==
    /\ observing
    /\ Len(probes) < MaxProbes
    /\ ShouldProbe(u)
    /\ inFlight' = inFlight \cup {u}
    /\ probes' = Append(probes,
                    [url |-> u, retries |-> 1, phase |-> "fetch",
                     due |-> now + PROBE_TIMEOUT_MS, sent |-> 1, errs |-> <<>>,
                     slept |-> Undefined])
    /\ UNCHANGED <<now, cache, session, advPref, lastCall, observing, toasts,
                   toastTimers, toastSeq, anonPuts, reloads>>
    /\ loaded' = NoLoad
    /\ UNCHANGED besidesMeta

\* fetch() resolved with response.ok and readable headers: the probe's
\* then-handler stores the record, saves, and the finally-handler runs
ProbeSucceeds(i, wr) ==
    /\ i \in 1..Len(probes)
    /\ probes[i].phase = "fetch"
    /\ LET p == probes[i]
           c == CacheSet(cache, p.url, ProbeRecord(CacheGet(cache, p.url), now))
       IN  /\ PutAndSave(c, p.url, wr)
           /\ inFlight' = InFlightDelete(inFlight, p.url)
    /\ probes' = RemoveAt(probes, i)
    /\ UNCHANGED <<now, advPref, observing, anonPuts, reloads>>
    /\ loaded' = NoLoad
    /\ UNCHANGED besidesMeta

\* the catch block of fetchMetadata for the error err of probe i
ProbeCatches(i, err) ==
    LET p == probes[i]
        errs == Append(p.errs, err.name)
    IN  IF err.name # "AbortError" /\ ShouldRetry(err, p.retries)
        THEN /\ probes' = [probes EXCEPT ![i] =
                    [p EXCEPT !.phase = "sleep", !.due = now + RETRY_DELAY_MS,
                              !.errs = errs, !.slept = 0 - now]]
             /\ UNCHANGED inFlight
        ELSE /\ probes' = RemoveAt(probes, i)
             /\ inFlight' = InFlightDelete(inFlight, p.url)

\* fetch() answered with something else than a usable response
ProbeFails(i, resp) ==
    /\ i \in 1..Len(probes)
    /\ probes[i].phase = "fetch"
    /\ resp \in RESPONSES \ {"ok"}
    /\ UNCHANGED <<now, cache, session, advPref, lastCall, observing, toasts,
                   toastTimers, toastSeq, anonPuts, reloads>>
    /\ loaded' = NoLoad
    /\ ProbeCatches(i, CASE resp = "http" -> HttpError
                         [] resp = "badDate" -> RangeError
                         [] OTHER -> TypeError)
    /\ UNCHANGED besidesMeta

\* the 5 second timer aborts the request
ProbeTimesOut(i) ==
    /\ i \in 1..Len(probes)
    /\ probes[i].phase = "fetch"
    /\ now >= probes[i].due
    /\ UNCHANGED <<now, cache, session, advPref, lastCall, observing, toasts,
                   toastTimers, toastSeq, anonPuts, reloads>>
    /\ loaded' = NoLoad
    /\ ProbeCatches(i, AbortError)
    /\ UNCHANGED besidesMeta

\* the retry delay is over: fetchMetadata(url, retries - 1)
ProbeRetries(i) ==
    /\ i \in 1..Len(probes)
    /\ probes[i].phase = "sleep"
    /\ now >= probes[i].due
    /\ probes' = [probes EXCEPT ![i] =
            [@ EXCEPT !.phase = "fetch", !.due = now + PROBE_TIMEOUT_MS,
                      !.retries = @ - 1, !.sent = @ + 1,
                      !.slept = now + @]]
    /\ UNCHANGED <<now, cache, session, advPref, inFlight, lastCall,
                   observing, toasts, toastTimers, toastSeq, anonPuts,
                   reloads>>
    /\ loaded' = NoLoad
    /\ UNCHANGED besidesMeta

(***************************************************************************)
(* cleanup(), observe(), the preference, the toasts' own events            *)
(***************************************************************************)
Cleanup ==
    /\ observing' = FALSE
    /\ cache' = <<>>
    /\ UNCHANGED <<now, session, advPref, inFlight, probes, lastCall, toasts,
                   toastTimers, toastSeq, anonPuts, reloads>>
    /\ loaded' = NoLoad
    /\ UNCHANGED besidesMeta

Observe ==
    /\ ~observing
    /\ observing' = TRUE
    /\ UNCHANGED <<now, cache, session, advPref, inFlight, probes, lastCall,
                   toasts, toastTimers, toastSeq, anonPuts, reloads>>
    /\ loaded' = NoLoad
    /\ UNCHANGED besidesMeta

\* the advanced-metadata preference is stored as v
SetAdvPref(v) ==
    /\ v \in {"true", "false"}
    /\ v # advPref
    /\ advPref' = v
    /\ UNCHANGED <<now, cache, session, inFlight, probes, lastCall, observing,
                   toasts, toastTimers, toastSeq, anonPuts, reloads>>
    /\ loaded' = NoLoad
    /\ UNCHANGED besidesMeta

\* "setTimeout(() => { if (notification.parentNode) notification.remove() })"
ToastExpires(tm) ==
    /\ tm \in toastTimers
    /\ now >= tm.due
    /\ toastTimers' = toastTimers \ {tm}
    /\ toasts' = ToastsWithout(toasts, tm.id)
    /\ UNCHANGED <<now, cache, session, advPref, inFlight, probes, lastCall,
                   observing, toastSeq, anonPuts, reloads>>
    /\ loaded' = NoLoad
    /\ UNCHANGED besidesMeta

\* showNotification(message, type, duration) called by the page
TYPES == {"info", "success"}
DURATIONS == {0, NOTIFY_DURATION_MS, WELCOME_DURATION_MS}
ShowNotification(type, duration) ==
    /\ toastSeq < MaxShown
    /\ toastSeq' = toastSeq + 1
    /\ toasts' = ToastsAfterShow(toasts, toastSeq', type, duration)
    /\ toastTimers' = TimersAfterShow(toastTimers, toastSeq', duration, now)
    /\ UNCHANGED <<now, cache, session, advPref, inFlight, probes, lastCall,
                   observing, anonPuts, reloads>>
    /\ loaded' = NoLoad
    /\ UNCHANGED besidesMeta

\* click on .ntb-notification-close
ToastClosed(i) ==
    /\ i \in 1..Len(toasts)
    /\ toasts' = ToastsWithout(toasts, toasts[i].id)
    /\ UNCHANGED <<now, cache, session, advPref, inFlight, probes, lastCall,
                   observing, toastTimers, toastSeq, anonPuts, reloads>>
    /\ loaded' = NoLoad
    /\ UNCHANGED besidesMeta

(***************************************************************************)
(* Time.  A timer fires before the clock passes its due time.              *)
(***************************************************************************)
Deadlines == {probes[i].due : i \in 1..Len(probes)} \cup {tm.due : tm \in toastTimers}

RECURSIVE SetMin(_)
SetMin(S) == LET x == CHOOSE y \in S : TRUE
             IN  IF S = {x} THEN x ELSE Min(x, SetMin(S \ {x}))

Elapsed == (now - StartTime) % CACHE_EXPIRY

Tick(maxTicks) ==
    /\ Elapsed < maxTicks * TickMs
    /\ now' = IF Deadlines = {} THEN now + TickMs
              ELSE Min(now + TickMs, SetMin(Deadlines))
    /\ now' > now
    /\ UNCHANGED <<cache, session, advPref, inFlight, probes, lastCall,
                   observing, toasts, toastTimers, toastSeq, anonPuts,
                   reloads>>
    /\ loaded' = NoLoad
    /\ UNCHANGED besidesMeta

(***************************************************************************)
(* Construction: createMetadataManager() on a page load of the same tab.   *)
(***************************************************************************)
\* what a construction at time t read from the mirror s and what it left
Loaded(s, t) == [at |-> t, hasExpiry |-> s.hasExpiry, expiry |-> s.expiry,
                 payload |-> s.payload, stored |-> CacheSize(s.data),
                 size |-> CacheSize(LoadCache(s, t)),
                 removed |-> LoadSession(s, t) = NoSession, fresh |-> TRUE]

Construct(s, t) ==
    /\ now = t
    /\ advPref = "absent"
    /\ cache = LoadCache(s, t)
    /\ session = LoadSession(s, t)
    /\ loaded = Loaded(s, t)
    /\ inFlight = {}
    /\ probes = <<>>
    /\ lastCall = 0
    /\ observing = TRUE
    /\ toasts = <<>>
    /\ toastTimers = {}
    /\ toastSeq = 0
    /\ anonPuts = 0
    /\ reloads = 0

\* the tab navigates after idle ms: the page's timers and requests die with
\* it and the next page constructs its manager
IDLES == {0, CACHE_EXPIRY}
Reload(idle) ==
    /\ reloads < MaxReloads
    /\ reloads' = reloads + 1
    /\ now' = now + idle
    /\ cache' = LoadCache(session, now')
    /\ session' = LoadSession(session, now')
    /\ loaded' = Loaded(session, now')
    /\ inFlight' = {}
    /\ probes' = <<>>
    /\ lastCall' = 0
    /\ observing' = TRUE
    /\ toasts' = <<>>
    /\ toastTimers' = {}
    /\ toastSeq' = 0
    /\ UNCHANGED <<advPref, anonPuts>>
    /\ UNCHANGED besidesMeta

\* what an earlier page of the tab can have left in sessionStorage
FullMirror == [payload |-> "json",
               data |-> <<[url |-> Anon, n |-> CACHE_MAX_SIZE - 1,
                           rec |-> DimRec(800, 600)]>>,
               hasExpiry |-> TRUE, expiry |-> StartTime + CACHE_EXPIRY - TickMs]
InitSessions ==
    {NoSession, FullMirror,
     [FullMirror EXCEPT !.payload = "corrupt", !.data = <<>>],
     [FullMirror EXCEPT !.expiry = StartTime]}

(***************************************************************************)
(* SpecProbe: the observer, the probes and noteImageSize on a page whose   *)
(* storage accepts every write.                                            *)
(***************************************************************************)
NextProbe ==
    \/ \E u \in URLS : Visible(u)
    \/ \E i \in 1..MaxProbes : ProbeSucceeds(i, "ok")
    \/ \E i \in 1..MaxProbes, resp \in RESPONSES : ProbeFails(i, resp)
    \/ \E i \in 1..MaxProbes : ProbeTimesOut(i)
    \/ \E i \in 1..MaxProbes : ProbeRetries(i)
    \/ \E u \in URLS, d \in LOADED_DIMS : NoteImageSize(u, d, "ok")
    \/ \E v \in {"true", "false"} : SetAdvPref(v)
    \/ Tick(MaxTicks)


(***************************************************************************)
(* SpecStore: the cache, its mirror and the storage's answers over page    *)
(* loads of one tab; no element is observed.                               *)
(***************************************************************************)
NextStore ==
    \/ \E u \in {"a.jpg", Anon}, d \in DIMS, wr \in WriteChoices :
          NoteImageSize(u, d, wr)
    \/ \E tm \in toastTimers : ToastExpires(tm)
    \/ \E i \in 1..MaxToasts : ToastClosed(i)
    \/ Tick(MaxStoreTicks)
    \/ \E idle \in IDLES : Reload(idle)


(***************************************************************************)
(* SpecLive: the observer, the probes and noteImageSize on a page whose    *)
(* events arrive during MaxLiveTicks seconds; after them the clock runs on *)
(* from one pending timer to the next.  The browser runs a timer that is   *)
(* due and the clock does not stop.                                        *)
(***************************************************************************)
LiveWindow == Elapsed < MaxLiveTicks * TickMs

TickToDeadline ==
    /\ ~LiveWindow
    /\ Deadlines # {}
    /\ now' = SetMin(Deadlines)
    /\ now' > now
    /\ UNCHANGED <<cache, session, advPref, inFlight, probes, lastCall,
                   observing, toasts, toastTimers, toastSeq, anonPuts,
                   reloads>>
    /\ loaded' = NoLoad
    /\ UNCHANGED besidesMeta

NextLive ==
    \/ \E u \in URLS : LiveWindow /\ Visible(u)
    \/ \E i \in 1..MaxProbes : ProbeSucceeds(i, "ok")
    \/ \E i \in 1..MaxProbes, resp \in RESPONSES : ProbeFails(i, resp)
    \/ \E i \in 1..MaxProbes : ProbeTimesOut(i)
    \/ \E i \in 1..MaxProbes : ProbeRetries(i)
    \/ \E u \in URLS, d \in LOADED_DIMS : LiveWindow /\ NoteImageSize(u, d, "ok")
    \/ Tick(MaxLiveTicks)
    \/ TickToDeadline

\* timers that are due run and the clock advances
FairLive ==
    /\ WF_vars(Tick(MaxLiveTicks))
    /\ WF_vars(TickToDeadline)
    /\ \A i \in 1..MaxProbes : WF_vars(ProbeTimesOut(i))
    /\ \A i \in 1..MaxProbes : WF_vars(ProbeRetries(i))

(***************************************************************************)
(* SpecCleanup: SpecLive's page with calls of cleanup() and observe()      *)
(* among its events.                                                       *)
(***************************************************************************)
NextCleanup ==
    \/ NextLive
    \/ LiveWindow /\ Cleanup
    \/ LiveWindow /\ Observe

(***************************************************************************)
(* SpecToast: showNotification calls, clicks on the close control and the  *)
(* auto-dismiss timers on one page.                                        *)
(***************************************************************************)
NextToast ==
    \/ \E type \in TYPES, duration \in DURATIONS : ShowNotification(type, duration)
    \/ \E tm \in toastTimers : ToastExpires(tm)
    \/ \E i \in 1..MaxShown : ToastClosed(i)
    \/ Tick(MaxToastTicks)

(***************************************************************************)
(* setupLightbox of soulful-thumbs-2.1.1.user.js.  Lengths are CSS pixels, *)
(* the scale is a fixed-point number of 1/ZUNIT; wrap's rectangle has its  *)
(* corner at (0, 0).                                                       *)
(***************************************************************************)
ZMIN == ZUNIT \div 2            \* st.min = .5
ZMAX == 6 * ZUNIT               \* st.max = 6
ZINF == 100 * ZUNIT             \* Infinity (a division by 0): above every quotient

\* natural sizes of the images the getter serves, in the gallery's order
ITEMS == << <<140, 105>>, <<8000, 6000>> >>
CURSORS == {<<0, 0>>, <<400, 300>>}
TILES == <<"tile-1", "tile-2">> \* the gallery's elements that open the items

\* getter(i): the item, or null
Getter(i) == i \in 1..Len(ITEMS)

\* "const clamp = (v, min, max) => Math.max(min, Math.min(max, v))"
Clamp(v, lo, hi) == Max(lo, Min(hi, v))

\* a / b for a >= 0, as the scale it is
Ratio(a, b) == IF b = 0 THEN ZINF ELSE (a * ZUNIT) \div b

\* clampPan()
ClampPan(s) ==
    LET iw == (s.w * s.z) \div ZUNIT
        ih == (s.h * s.z) \div ZUNIT
        limX == Max(0, (iw - VIEW_W) \div 2)
        limY == Max(0, (ih - VIEW_H) \div 2)
    IN  [s EXCEPT !.x = Clamp(s.x, 0 - limX, limX),
                  !.y = Clamp(s.y, 0 - limY, limY)]

\* "st.x = cx - r.left - px*nz" with px = (cx - r.left - st.x) / st.z
PanAfter(c, pan, z, nz) ==
    IF z >= ZINF THEN c ELSE c - ((c - pan) * nz) \div z

\* a variant without the clamp of the scale
ZoomToUnclamped(s, z, c) ==
    ClampPan([s EXCEPT !.x = PanAfter(c[1], s.x, s.z, z),
                       !.y = PanAfter(c[2], s.y, s.z, z),
                       !.z = z])
\* zoomTo(z, cx, cy)
ZoomTo(s, z, c) ==
    LET nz == Clamp(z, ZMIN, ZMAX)
    IN  ClampPan([s EXCEPT !.x = PanAfter(c[1], s.x, s.z, nz),
                           !.y = PanAfter(c[2], s.y, s.z, nz),
                           !.z = nz])

\* "st.z=1; st.x=st.y=0"
ResetZoom(s) == [s EXCEPT !.z = ZUNIT, !.x = 0, !.y = 0]

\* the click handler's branch for the control data-act = act
ACTS == {"fit", "fill", "100", "+", "-", "reset"}
AfterAct(s, act, c) ==
    CASE act = "fit" ->
            [s EXCEPT !.z = Min(Ratio(VIEW_W, s.w), Ratio(VIEW_H, s.h)),
                      !.x = 0, !.y = 0]
      [] act = "fill" ->
            [s EXCEPT !.z = Max(Ratio(VIEW_W, s.w), Ratio(VIEW_H, s.h)),
                      !.x = 0, !.y = 0]
      [] act = "+" -> ZoomTo(s, (s.z * 11) \div 10, c)
      [] act = "-" -> ZoomTo(s, (s.z * 10) \div 11, c)
      [] OTHER -> ResetZoom(s)

\* openAt(idx), called with the element el focused
OpenAt(idx, el) ==
    /\ lbIndex' = idx
    /\ IF Getter(idx)
       THEN /\ lbOn' = TRUE
            /\ lastFocus' = el
            /\ focus' = "st-close"
            /\ openTimers' = openTimers + 1
            /\ opener' = IF lbOn THEN opener ELSE el
       ELSE /\ focus' = el
            /\ UNCHANGED <<lbOn, lastFocus, openTimers, opener>>

\* the user activates the tile of item idx, which takes the focus, and the
\* renderer calls openAt(idx)
LbOpen(idx) ==
    /\ ~lbOn
    /\ idx \in 1..Len(ITEMS)
    /\ openTimers < MaxOpenTimers
    /\ OpenAt(idx, TILES[idx])
    /\ UNCHANGED <<st, innerC, allowPlainWheel, zooms>>
    /\ UNCHANGED besidesLb

\* the callback openAt left with setTimeout(..., 0); nat is what the image
\* reports as its natural size by then (<<0, 0>>: not loaded)
LbOpened(nat) ==
    /\ openTimers > 0
    /\ nat \in (IF lbOn /\ Getter(lbIndex) THEN {ITEMS[lbIndex]} ELSE {}) \cup {<<0, 0>>}
    /\ openTimers' = openTimers - 1
    /\ st' = [z |-> ZUNIT, x |-> 0, y |-> 0,
              w |-> IF nat[1] = 0 THEN FALLBACK_W ELSE nat[1],
              h |-> IF nat[2] = 0 THEN FALLBACK_H ELSE nat[2]]
    /\ UNCHANGED <<lbOn, lastFocus, lbIndex, innerC, allowPlainWheel, focus,
                   opener, zooms>>
    /\ UNCHANGED besidesLb

\* close(): the Escape key or a click on .st-close
LbClose ==
    /\ lbOn
    /\ lbOn' = FALSE
    /\ focus' = IF lastFocus # "none" THEN lastFocus ELSE focus
    /\ UNCHANGED <<st, lastFocus, lbIndex, openTimers, innerC, allowPlainWheel,
                   opener, zooms>>
    /\ UNCHANGED besidesLb

\* next() and prev(): an arrow key (the focus stays) or a click on the
\* button, which takes the focus
LbStep(delta, byClick) ==
    /\ openTimers < MaxOpenTimers
    /\ LET el == IF ~byClick THEN focus
                 ELSE IF delta > 0 THEN "st-next" ELSE "st-prev"
       IN  IF Getter(lbIndex + delta)
           THEN OpenAt(lbIndex + delta, el)
           ELSE focus' = el /\ UNCHANGED <<lbOn, lastFocus, lbIndex, openTimers,
                                           opener>>
    /\ UNCHANGED <<st, innerC, allowPlainWheel, zooms>>
    /\ UNCHANGED besidesLb

LbNext(byClick) == lbOn /\ LbStep(1, byClick)
LbPrev(byClick) == lbOn /\ LbStep(0 - 1, byClick)

\* keydown '0'
LbKeyReset ==
    /\ lbOn
    /\ st' = ResetZoom(st)
    /\ UNCHANGED <<lbOn, lastFocus, lbIndex, openTimers, innerC,
                   allowPlainWheel, focus, opener, zooms>>
    /\ UNCHANGED besidesLb

\* a click on a control of the bar
LbClick(act) ==
    /\ lbOn
    /\ act \in ACTS
    /\ act \in {"+", "-"} => zooms < MaxZooms
    /\ zooms' = IF act \in {"+", "-"} THEN zooms + 1 ELSE zooms
    /\ st' = AfterAct(st, act, innerC)
    /\ focus' = "st-lbbar"
    /\ UNCHANGED <<lbOn, lastFocus, lbIndex, openTimers, innerC,
                   allowPlainWheel, opener>>
    /\ UNCHANGED besidesLb

\* mousemove over wrap
LbMouseMove(c) ==
    /\ lbOn
    /\ c # innerC
    /\ innerC' = c
    /\ UNCHANGED <<lbOn, st, lastFocus, lbIndex, openTimers, allowPlainWheel,
                   focus, opener, zooms>>
    /\ UNCHANGED besidesLb

\* wheel over wrap at c; down: deltaY > 0; mod: ctrlKey or metaKey
LbWheel(c, down, mod) ==
    /\ lbOn
    /\ allowPlainWheel \/ mod
    /\ zooms < MaxZooms
    /\ zooms' = zooms + 1
    /\ st' = ZoomTo(st, IF down THEN (st.z * 9) \div 10 ELSE (st.z * 11) \div 10, c)
    /\ UNCHANGED <<lbOn, lastFocus, lbIndex, openTimers, innerC,
                   allowPlainWheel, focus, opener>>
    /\ UNCHANGED besidesLb

\* setWheelMode(b)
LbSetWheelMode(b) ==
    /\ b # allowPlainWheel
    /\ allowPlainWheel' = b
    /\ UNCHANGED <<lbOn, st, lastFocus, lbIndex, openTimers, innerC, focus,
                   opener, zooms>>
    /\ UNCHANGED besidesLb

\* setupLightbox(), called while the element active has the focus
SetupLightbox(active) ==
    /\ lbOn = FALSE
    /\ st = [z |-> ZUNIT, x |-> 0, y |-> 0, w |-> 0, h |-> 0]
    /\ lastFocus = "none"
    /\ lbIndex = 0
    /\ openTimers = 0
    /\ innerC = <<0, 0>>
    /\ allowPlainWheel = FALSE
    /\ focus = active
    /\ opener = "none"
    /\ zooms = 0

NextLb ==
    \/ \E idx \in 1..Len(ITEMS) : LbOpen(idx)
    \/ \E nat \in {ITEMS[k] : k \in 1..Len(ITEMS)} \cup {<<0, 0>>} : LbOpened(nat)
    \/ LbClose
    \/ \E byClick \in BOOLEAN : LbNext(byClick)
    \/ \E byClick \in BOOLEAN : LbPrev(byClick)
    \/ LbKeyReset
    \/ \E act \in ACTS : LbClick(act)
    \/ \E c \in CURSORS : LbMouseMove(c)
    \/ \E c \in CURSORS, down \in BOOLEAN, mod \in BOOLEAN : LbWheel(c, down, mod)
    \/ \E b \in BOOLEAN : LbSetWheelMode(b)

(***************************************************************************)
(* looksLikeAutoIndex of NiceThumbsBuddy.user.js.  A document is           *)
(* [title, anchors, hasPre, preListing, hasTable, headings]: the title is  *)
(* its lower-cased words, an anchor is [href, text] with href.scheme ""    *)
(* for an anchor without href, preListing tells whether the text of the    *)
(* first pre matches one of the two listing patterns, headings tells       *)
(* whether a th or a first td matches name, last modified, size or         *)
(* description.                                                            *)
(***************************************************************************)
MaxAnchors == 4        \* anchors of a document
MaxCrawlDepth == 2
MaxDebCalls == 4
MaxDebTicks == 10
MaxCrawlPages == 5
MaxListing == 2        \* anchors of a listing that are told apart

TITLES == {<<>>, <<"index", "of", "/photos/">>, <<"my", "autoindex">>,
           <<"directory", "listing">>, <<"the", "index", "of", "x">>}
ANCHORS ==
    {[scheme |-> "https:", text |-> "a.jpg"],
     [scheme |-> "https:", text |-> "parent directory"],
     [scheme |-> "mailto:", text |-> "webmaster"],
     [scheme |-> "javascript:", text |-> "sort"],
     [scheme |-> "", text |-> "parent directory"]}
AnchorLists == UNION {[1..n -> ANCHORS] : n \in 0..MaxAnchors}

NoDoc == [title |-> <<>>, anchors |-> <<>>, hasPre |-> FALSE,
          preListing |-> FALSE, hasTable |-> FALSE, headings |-> FALSE]

\* "a && a.href && !a.href.startsWith('mailto:') && !a.href.startsWith('javascript:')"
IsFunctionalLink(a) ==
    a.scheme # "" /\ a.scheme # "mailto:" /\ a.scheme # "javascript:"

\* "t.startsWith('index of ') || t.includes('autoindex') || /directory/i.test(t)"
HasIndexTitle(t) ==
    \/ Len(t) > 2 /\ t[1] = "index" /\ t[2] = "of"
    \/ \E k \in 1..Len(t) : t[k] = "autoindex"
    \/ \E k \in 1..Len(t) : t[k] = "directory"

\* "$$('a', doc).some(a => /parent directory/i.test(a.textContent))"
HasParentLink(d) ==
    \E k \in 1..Len(d.anchors) : d.anchors[k].text = "parent directory"

\* "$$('a[href]', doc).filter(isFunctionalLink)"
Fileish(d) ==
    {k \in 1..Len(d.anchors) : d.anchors[k].scheme # "" /\ IsFunctionalLink(d.anchors[k])}

\* a variant content with 2 links
ManyLoose(d) == Cardinality(Fileish(d)) >= 2
\* "fileish.length >= 3"
Many(d) == Cardinality(Fileish(d)) >= 3

\* hasDirectoryPattern after the two if blocks: the table's overwrites the pre's
HasDirectoryPattern(d) ==
    LET afterPre == IF d.hasPre THEN d.preListing ELSE FALSE
    IN  IF d.hasTable THEN d.headings ELSE afterPre

LooksLikeAutoIndex(d) ==
    /\ \/ HasIndexTitle(d.title)
       \/ HasParentLink(d)
       \/ HasDirectoryPattern(d)
       \/ d.hasPre /\ d.hasTable
    /\ Many(d)

\* the userscript starts on the page and asks the detector
Detect ==
    /\ verdict = "none"
    /\ verdict' = IF LooksLikeAutoIndex(doc) THEN "true" ELSE "false"
    /\ UNCHANGED doc
    /\ UNCHANGED besidesDetect

\* the documents the userscript can start on
DOCS ==
    {d \in [title : TITLES, anchors : AnchorLists, hasPre : BOOLEAN,
            preListing : BOOLEAN, hasTable : BOOLEAN, headings : BOOLEAN] :
        (d.preListing => d.hasPre) /\ (d.headings => d.hasTable)}

\* the page shows the document d and the detector has not run
Document(d) == doc = d /\ verdict = "none"

NextDetect == Detect

(***************************************************************************)
(* parseIndex and getFolderType of NiceThumbsBuddy.user.js.  A string the  *)
(* code looks into is the sequence of its characters.                      *)
(***************************************************************************)
UPPER == <<"A", "B", "C", "D", "E", "F", "G", "H", "I", "J", "K", "L", "M", "N", "O", "P", "Q", "R", "S", "T", "U", "V", "W", "X", "Y", "Z">>
LOWER == <<"a", "b", "c", "d", "e", "f", "g", "h", "i", "j", "k", "l", "m", "n", "o", "p", "q", "r", "s", "t", "u", "v", "w", "x", "y", "z">>
\* the characters in the order the collator ranks them, letters without case
COLLATION == 
    <<" ", "_", "-", ".", "/", "0", "1", "2", "3", "4", "5", "6", "7", "8", "9", "a", "b", "c", "d", "e", "f", "g", "h", "i", "j", "k", "l", "m", "n", "o", "p", "q", "r", "s", "t", "u", "v", "w", "x", "y", "z">>

\* name.toLowerCase()
ToLowerCase(str) ==
    [k \in 1..Len(str) |->
        IF \E j \in 1..Len(UPPER) : UPPER[j] = str[k]
        THEN LOWER[CHOOSE j \in 1..Len(UPPER) : UPPER[j] = str[k]]
        ELSE str[k]]

\* a variant that matches the term at the start of str only
ContainsAtStart(str, term) ==
    Len(term) <= Len(str) /\ SubSeq(str, 1, Len(term)) = term
\* an unanchored match of the literal term in str
Contains(str, term) ==
    \E k \in 1..(Len(str) - Len(term) + 1) : SubSeq(str, k, k + Len(term) - 1) = term

\* /t1|t2|.../i.test(str)
TestAny(terms, str) == \E term \in terms : Contains(ToLowerCase(str), term)

\* /video|movie|film|tv|show|series/
VIDEO_TERMS ==
    {<<"v", "i", "d", "e", "o">>,
     <<"m", "o", "v", "i", "e">>,
     <<"f", "i", "l", "m">>,
     <<"t", "v">>,
     <<"s", "h", "o", "w">>,
     <<"s", "e", "r", "i", "e", "s">>}
\* /audio|sound|music|mp3|wav|flac/
AUDIO_TERMS ==
    {<<"a", "u", "d", "i", "o">>,
     <<"s", "o", "u", "n", "d">>,
     <<"m", "u", "s", "i", "c">>,
     <<"m", "p", "3">>,
     <<"w", "a", "v">>,
     <<"f", "l", "a", "c">>}
\* /photo|image|picture|img|jpg|camera|raw/
PHOTO_TERMS ==
    {<<"p", "h", "o", "t", "o">>,
     <<"i", "m", "a", "g", "e">>,
     <<"p", "i", "c", "t", "u", "r", "e">>,
     <<"i", "m", "g">>,
     <<"j", "p", "g">>,
     <<"c", "a", "m", "e", "r", "a">>,
     <<"r", "a", "w">>}
\* /archive|backup|old|save/
ARCHIVE_TERMS ==
    {<<"a", "r", "c", "h", "i", "v", "e">>,
     <<"b", "a", "c", "k", "u", "p">>,
     <<"o", "l", "d">>,
     <<"s", "a", "v", "e">>}
\* /document|doc|pdf|txt|report/
DOCUMENT_TERMS ==
    {<<"d", "o", "c", "u", "m", "e", "n", "t">>,
     <<"d", "o", "c">>,
     <<"p", "d", "f">>,
     <<"t", "x", "t">>,
     <<"r", "e", "p", "o", "r", "t">>}

\* getFolderType(name)
GetFolderType(name) ==
    LET n == ToLowerCase(name)
    IN  IF TestAny(VIDEO_TERMS, n) THEN "video"
        ELSE IF TestAny(AUDIO_TERMS, n) THEN "audio"
        ELSE IF TestAny(PHOTO_TERMS, n) THEN "photo"
        ELSE IF TestAny(ARCHIVE_TERMS, n) THEN "archive"
        ELSE IF TestAny(DOCUMENT_TERMS, n) THEN "document"
        ELSE "default"

\* str.trim()
RECURSIVE Trim(_)
Trim(str) ==
    IF str = <<>> THEN str
    ELSE IF Head(str) = " " THEN Trim(Tail(str))
    ELSE IF str[Len(str)] = " " THEN Trim(SubSeq(str, 1, Len(str) - 1))
    ELSE str

\* "if (name.endsWith('/')) name = name.slice(0, -1)"
SliceSlash(str) ==
    IF str # <<>> /\ str[Len(str)] = "/" THEN SubSeq(str, 1, Len(str) - 1) ELSE str

\* the place of a character in the collation
Rank(ch) ==
    LET c == ToLowerCase(<<ch>>)[1]
    IN  IF \E k \in 1..Len(COLLATION) : COLLATION[k] = c
        THEN CHOOSE k \in 1..Len(COLLATION) : COLLATION[k] = c
        ELSE 0

\* nat(a, b) < 0, = 0, > 0 as -1, 0, 1: the collator's comparison without
\* case (no two names of the model differ in a run of digits)
RECURSIVE Nat_(_, _)
Nat_(a, b) ==
    IF a = <<>> /\ b = <<>> THEN 0
    ELSE IF a = <<>> THEN 0 - 1
    ELSE IF b = <<>> THEN 1
    ELSE IF Rank(Head(a)) < Rank(Head(b)) THEN 0 - 1
    ELSE IF Rank(Head(a)) > Rank(Head(b)) THEN 1
    ELSE Nat_(Tail(a), Tail(b))

\* the hrefs of the model with what the code computes from them: url is
\* abs(href, baseUrl), kind tells which of isDirHref, isImgHref, isFileHref
\* is the first to hold, functional is isFunctionalLink, skipped is the
\* first test of the loop, last is decodeURIComponent(url.split('/').pop())
HREFS ==
    {[href |-> "photos/", url |-> "/photos/", kind |-> "dir", functional |-> TRUE,
      skipped |-> FALSE, last |-> <<>>],
     [href |-> "./photos/", url |-> "/photos/", kind |-> "dir", functional |-> TRUE,
      skipped |-> FALSE, last |-> <<>>],
     [href |-> "a.jpg", url |-> "/a.jpg", kind |-> "img", functional |-> TRUE,
      skipped |-> FALSE, last |-> <<"a", ".", "j", "p", "g">>],
     [href |-> "notes/", url |-> "/notes/", kind |-> "dir", functional |-> TRUE,
      skipped |-> FALSE, last |-> <<>>],
     [href |-> "notes.pdf", url |-> "/notes.pdf", kind |-> "file", functional |-> TRUE,
      skipped |-> FALSE, last |-> <<"n", "o", "t", "e", "s", ".", "p", "d", "f">>],
     [href |-> "readme", url |-> "/readme", kind |-> "none", functional |-> TRUE,
      skipped |-> FALSE, last |-> <<"r", "e", "a", "d", "m", "e">>],
     [href |-> "../", url |-> "/", kind |-> "dir", functional |-> TRUE,
      skipped |-> TRUE, last |-> <<>>],
     [href |-> "mailto:x", url |-> "mailto:x", kind |-> "none", functional |-> FALSE,
      skipped |-> FALSE, last |-> <<"m", "a", "i", "l", "t", "o", ":", "x">>]}

\* a.textContent of the anchors
TEXTS ==
    {<<>>,
     <<"S", "u", "m", "m", "e", "r", " ", "V", "a", "c", "a", "t", "i", "o", "n", " ", "P", "h", "o", "t", "o", "s">>,
     <<"B", "a", "c", "k", "u", "p", "_", "2", "0", "2", "3">>,
     <<"N", "o", "t", "e", "s">>,
     <<"A", "s", "s", "o", "r", "t", "e", "d", " ", "S", "t", "u", "f", "f">>,
     <<"p", "i", "c", "s", "/", " ">>}

\* a run of n anchors to images, each with a URL and a text of its own that
\* no other anchor of the listing has
AnonHref == [href |-> "*", url |-> "*", kind |-> "img", functional |-> TRUE,
             skipped |-> FALSE, last |-> <<"i", "m", "g">>]
AnonRun(n) == [a |-> AnonHref, text |-> <<"i", "m", "g">>, n |-> n]

\* one anchor
Anchor(h, t) == [a |-> h, text |-> t, n |-> 1]

\* "(a.textContent || decodeURIComponent(url.split('/').pop() || '')).trim()"
\* and the slice of the trailing slash
NameOf(anchor) ==
    SliceSlash(Trim(IF anchor.text # <<>> THEN anchor.text ELSE anchor.a.last))

\* the anchor passes the tests of the loop and falls into a bucket
Accepted(anchor) ==
    /\ ~anchor.a.skipped
    /\ anchor.a.functional
    /\ NameOf(anchor) # <<>>
    /\ anchor.a.kind # "none"

\* the entry pushed for an anchor (n of them for a run)
EntryOf(anchor, n) ==
    [kind |-> anchor.a.kind, url |-> anchor.a.url, name |-> NameOf(anchor),
     type |-> IF anchor.a.kind = "dir" THEN GetFolderType(NameOf(anchor)) ELSE "",
     n |-> n]

\* the number of entries of a bucket
RECURSIVE Count(_)
Count(b) == IF b = <<>> THEN 0 ELSE Head(b).n + Count(Tail(b))

\* the three arrays and whether the loop has left with break
NoBuckets == [dirs |-> <<>>, images |-> <<>>, files |-> <<>>, stopped |-> FALSE]
Total(acc) == Count(acc.dirs) + Count(acc.images) + Count(acc.files)

\* a variant of the round without the break
LoopBodyNoBreak(acc, anchor) ==
    IF ~Accepted(anchor) THEN acc
    ELSE LET e == EntryOf(anchor, anchor.n)
         IN  CASE e.kind = "dir" -> [acc EXCEPT !.dirs = Append(@, e)]
               [] e.kind = "img" -> [acc EXCEPT !.images = Append(@, e)]
               [] OTHER -> [acc EXCEPT !.files = Append(@, e)]
\* one round of "for (const a of anchors)"; a run is taken up to the break
LoopBody(acc, anchor) ==
    IF acc.stopped \/ ~Accepted(anchor) THEN acc
    ELSE LET take == Min(anchor.n, MAX_ITEMS_PAGE - Total(acc))
             e == EntryOf(anchor, take)
             pushed == CASE e.kind = "dir" -> [acc EXCEPT !.dirs = Append(@, e)]
                         [] e.kind = "img" -> [acc EXCEPT !.images = Append(@, e)]
                         [] OTHER -> [acc EXCEPT !.files = Append(@, e)]
         IN  [pushed EXCEPT !.stopped = Total(pushed) >= MAX_ITEMS_PAGE]

RECURSIVE Loop(_, _)
Loop(acc, anchors) ==
    IF anchors = <<>> THEN acc ELSE Loop(LoopBody(acc, Head(anchors)), Tail(anchors))

\* uniq(arr): "arr.filter(x => seen.has(x.url) ? false : (seen.add(x.url), true))"
RECURSIVE UniqSeen(_, _)
UniqSeen(arr, seen) ==
    IF arr = <<>> THEN <<>>
    ELSE LET x == Head(arr)
         IN  IF x.url # AnonHref.url /\ x.url \in seen
             THEN UniqSeen(Tail(arr), seen)
             ELSE <<x>> \o UniqSeen(Tail(arr), seen \cup {x.url})
\* a variant that filters nothing
UniqNone(arr) == arr
Uniq(arr) == UniqSeen(arr, {})

\* arr.sort(byName): the sort is stable
RECURSIVE Insert(_, _)
Insert(x, sorted) ==
    IF sorted = <<>> THEN <<x>>
    ELSE IF Nat_(x.name, Head(sorted).name) < 0 THEN <<x>> \o sorted
    ELSE <<Head(sorted)>> \o Insert(x, Tail(sorted))
RECURSIVE SortByName(_)
SortByName(arr) ==
    IF arr = <<>> THEN <<>>
    ELSE Insert(arr[Len(arr)], SortByName(SubSeq(arr, 1, Len(arr) - 1)))

NotParsed == [done |-> FALSE, dirs |-> <<>>, images |-> <<>>, files |-> <<>>]

\* parseIndex(doc, baseUrl)
ParseIndex(anchors) ==
    LET acc == Loop(NoBuckets, anchors)
    IN  [done |-> TRUE,
         dirs |-> SortByName(Uniq(acc.dirs)),
         images |-> SortByName(Uniq(acc.images)),
         files |-> SortByName(Uniq(acc.files))]

\* the listings of the model: at most one run, then the anchors told apart
RUNS == {<<>>, <<AnonRun(MAX_ITEMS_PAGE - 1)>>, <<AnonRun(MAX_ITEMS_PAGE)>>}
\* every text on the anchors to directories, two texts on the other anchors
\* the loop reads, one text on the anchors it skips
LINKS ==
    {l \in {Anchor(h, t) : h \in HREFS, t \in TEXTS} :
        \/ l.a.kind = "dir" /\ ~l.a.skipped
        \/ l.text = <<"N", "o", "t", "e", "s">>
        \/ l.text = <<>> /\ ~l.a.skipped /\ l.a.functional}
LISTINGS ==
    {run \o links : run \in RUNS,
                    links \in UNION {[1..n -> LINKS] : n \in 0..MaxListing}}

\* the page shows the listing l and parseIndex has not run
Listing(l) == listing = l /\ parsed = NotParsed

\* the gallery reads the listing of the page
Parse ==
    /\ ~parsed.done
    /\ parsed' = ParseIndex(listing)
    /\ UNCHANGED listing
    /\ UNCHANGED besidesParse

NextParse == Parse

(***************************************************************************)
(* The bootstrappers on the tabs of one browser profile: the top level of  *)
(* NiceThumbsBuddy.user.js, which calls initializeEnhancements, and the    *)
(* top level of NiceThumbs,Buddy.user.js, which calls setupLimitControls.  *)
(* Both run at document-end.  A page is what the userscript left on it; a  *)
(* timer is [kind, id, due].                                               *)
(***************************************************************************)
PAGES == {"tab-1", "tab-2"}
SCRIPTS == {"NiceThumbsBuddy.user.js", "NiceThumbs,Buddy.user.js"}
WELCOMED == "ntb:welcomed"

\* an autoindex page, a page with links that is no listing, an empty page
ListingDoc ==
    [title |-> <<"index", "of", "/photos/">>,
     anchors |-> <<[scheme |-> "https:", text |-> "parent directory"],
                   [scheme |-> "https:", text |-> "a.jpg"],
                   [scheme |-> "https:", text |-> "a.jpg"]>>,
     hasPre |-> TRUE, preListing |-> TRUE, hasTable |-> FALSE, headings |-> FALSE]
LinksDoc == [ListingDoc EXCEPT !.title = <<>>, !.hasPre = FALSE,
                               !.preListing = FALSE,
                               !.anchors = <<[scheme |-> "https:", text |-> "a.jpg"],
                                             [scheme |-> "https:", text |-> "a.jpg"],
                                             [scheme |-> "mailto:", text |-> "webmaster"]>>]
BOOT_DOCS == {ListingDoc, LinksDoc, NoDoc}

\* the page of document d before the userscript s has done anything to it;
\* toolbar: the document holds an element '.ntb-toolbar .ntb-right'
Untouched(s, d, toolbar) ==
    [script |-> s, doc |-> d, toolbar |-> toolbar, style |-> FALSE,
     nodes |-> {}, listeners |-> {}, timers |-> {}, writes |-> {},
     manager |-> FALSE, toasts |-> <<>>, toastSeq |-> 0]

NoPage == Untouched("none", NoDoc, FALSE)

\* initializeEnhancements() at time t over the localStorage keys prof
InitializeEnhancements(d, toolbar, prof, t) ==
    LET page == Untouched("NiceThumbsBuddy.user.js", d, toolbar)
    IN  IF ~LooksLikeAutoIndex(d) THEN page
        ELSE [page EXCEPT
                 !.style = TRUE,
                 !.timers = IF WELCOMED \notin prof
                            THEN {[kind |-> "welcome", id |-> 0,
                                   due |-> t + WELCOME_DELAY_MS]}
                            ELSE {},
                 !.manager = TRUE,
                 !.listeners = {"keydown"}]

\* the top level of NiceThumbs,Buddy.user.js: the limits are read,
\* setupLimitControls() starts its poll, createMetadataManager() is a stub
SetupLimitControls(d, toolbar, prof, t) ==
    [Untouched("NiceThumbs,Buddy.user.js", d, toolbar) EXCEPT
        !.timers = {[kind |-> "poll", id |-> 0, due |-> t + LIMITS_POLL_MS]}]

\* the tab p loads the document d and the userscript s runs on it; the
\* timers and listeners of the tab's previous page die with it
LoadPage(p, d, toolbar, s) ==
    /\ loads < MaxLoads
    /\ loads' = loads + 1
    /\ pages' = [pages EXCEPT ![p] =
                    IF s = "NiceThumbsBuddy.user.js"
                    THEN InitializeEnhancements(d, toolbar, profile, clock)
                    ELSE SetupLimitControls(d, toolbar, profile, clock)]
    /\ UNCHANGED <<profile, clock, welcomes>>
    /\ UNCHANGED besidesBoot

\* the callback of the welcome timer: showNotification(..., 'success', 5000)
\* and localStorage.setItem('ntb:welcomed', 'true')
WelcomeFires(p) ==
    \E tm \in pages[p].timers :
        /\ tm.kind = "welcome"
        /\ clock >= tm.due
        /\ LET id == pages[p].toastSeq + 1
           IN  pages' = [pages EXCEPT
                   ![p].toasts = ToastsAfterShow(@, id, "success", WELCOME_DURATION_MS),
                   ![p].toastSeq = id,
                   ![p].timers = (@ \ {tm}) \cup
                                 {[kind |-> "toast", id |-> id,
                                   due |-> clock + WELCOME_DURATION_MS]},
                   ![p].writes = @ \cup {WELCOMED}]
        /\ profile' = profile \cup {WELCOMED}
        /\ welcomes' = welcomes + 1
        /\ UNCHANGED <<clock, loads>>
        /\ UNCHANGED besidesBoot

\* the callback of setInterval(..., 500) in setupLimitControls
PollFires(p) ==
    \E tm \in pages[p].timers :
        /\ tm.kind = "poll"
        /\ clock >= tm.due
        /\ pages' = IF ~pages[p].toolbar
                    THEN [pages EXCEPT ![p].timers =
                             (@ \ {tm}) \cup {[tm EXCEPT !.due = @ + LIMITS_POLL_MS]}]
                    ELSE [pages EXCEPT ![p].timers = @ \ {tm},
                                       ![p].nodes = @ \cup {"limits-button"},
                                       ![p].listeners = @ \cup {"limits-click"}]
        /\ UNCHANGED <<profile, clock, loads, welcomes>>
        /\ UNCHANGED besidesBoot

\* the auto-dismiss timer of the welcome toast
WelcomeExpires(p) ==
    \E tm \in pages[p].timers :
        /\ tm.kind = "toast"
        /\ clock >= tm.due
        /\ pages' = [pages EXCEPT ![p].timers = @ \ {tm},
                                  ![p].toasts = ToastsWithout(@, tm.id)]
        /\ UNCHANGED <<profile, clock, loads, welcomes>>
        /\ UNCHANGED besidesBoot

\* the timers of the profile's pages
BootTimers == UNION {pages[p].timers : p \in PAGES}

\* time passes to the next timer that is due after clock, or by the poll
\* interval; a timer runs before the clock passes its due time
BootTick ==
    /\ clock < MaxBootTicks * LIMITS_POLL_MS
    /\ \A tm \in BootTimers : tm.due > clock
    /\ clock' = IF BootTimers = {} THEN clock + LIMITS_POLL_MS
                ELSE SetMin({tm.due : tm \in BootTimers})
    /\ UNCHANGED <<profile, pages, loads, welcomes>>
    /\ UNCHANGED besidesBoot

\* the profile holds the keys prof and no tab has loaded a page
Profile(prof) ==
    /\ profile = prof
    /\ pages = [p \in PAGES |-> NoPage]
    /\ clock = 0
    /\ loads = 0
    /\ welcomes = 0

NextBoot ==
    \/ \E p \in PAGES, d \in BOOT_DOCS, toolbar \in BOOLEAN, s \in SCRIPTS :
          LoadPage(p, d, toolbar, s)
    \/ \E p \in PAGES : WelcomeFires(p)
    \/ \E p \in PAGES : PollFires(p)
    \/ \E p \in PAGES : WelcomeExpires(p)
    \/ BootTick

(***************************************************************************)
(* Rendering the gallery on a recognised listing: renderGallery of         *)
(* src/ui.js and main of soulful-thumbs-2.1.1.user.js.  A child of         *)
(* document.body is [id, tag, classes]; the server's children have the     *)
(* ids 1, 2, ... and the elements a gallery creates the id 0.              *)
(***************************************************************************)
TAGS == {"h1", "pre", "table", "hr"}

Element(tag, class) == [id |-> 0, tag |-> tag, classes |-> {class}]

\* the listing pages the server sends: at least one pre or table
BODIES ==
    {b \in UNION {[1..n -> TAGS] : n \in 1..MaxBody} :
        \E i \in 1..Len(b) : b[i] \in {"pre", "table"}}
ServedBody(b) == [i \in 1..Len(b) |-> [id |-> i, tag |-> b[i], classes |-> {}]]

\* $(sel): the position of the first child with the tag, 0 if there is none
First(b, tag) ==
    IF \E i \in 1..Len(b) : b[i].tag = tag
    THEN CHOOSE i \in 1..Len(b) :
            b[i].tag = tag /\ \A j \in 1..(i - 1) : b[j].tag # tag
    ELSE 0

\* "original=[$('pre'),$('table')].filter(Boolean);
\*  original.forEach(el=>el.classList.add('st-hide-original'))"
HideOriginal(b) ==
    [i \in 1..Len(b) |->
        IF i = First(b, "pre") \/ i = First(b, "table")
        THEN [b[i] EXCEPT !.classes = @ \cup {"st-hide-original"}]
        ELSE b[i]]

\* renderGallery(data): "document.body.innerHTML = '';
\* document.body.appendChild(container)"
RenderGallery ==
    /\ renderer = "none"
    /\ renderer' = "src/ui.js"
    /\ body' = <<Element("div", "ntb-grid")>>
    /\ UNCHANGED served
    /\ UNCHANGED besidesRender

\* main() of soulful-thumbs: the originals are hidden, the toolbar is
\* prepended, the grid, the list and the lightbox are appended
SoulfulMain ==
    /\ renderer = "none"
    /\ renderer' = "soulful-thumbs-2.1.1.user.js"
    /\ body' = <<Element("div", "st-toolbar")>> \o HideOriginal(body) \o
               <<Element("div", "st-grid"), Element("div", "st-list"),
                 Element("div", "st-lightbox")>>
    /\ UNCHANGED served
    /\ UNCHANGED besidesRender

\* the server sent the children b and no gallery has rendered
Served(b) ==
    /\ served = ServedBody(b)
    /\ body = ServedBody(b)
    /\ renderer = "none"

NextRender == RenderGallery \/ SoulfulMain

(***************************************************************************)
(* The preference store and the limits of NiceThumbs,Buddy.user.js.  A     *)
(* stored value is the sequence of its characters; a number is [nan, v],   *)
(* the threshold being counted in 1/MILLI.  The strings of the model have  *)
(* no exponent and at most three decimals.                                 *)
(***************************************************************************)
MILLI == 10 * 10 * 10
MAX_ITEMS_MIN == 100
MAX_ITEMS_MAX == 50000
CONCURRENCY_MIN == 1
CONCURRENCY_MAX == 16
DEFAULT_MAX_ITEMS == 12000
DEFAULT_CONCURRENCY == 4
DEFAULT_THRESHOLD == MILLI \div 10

DIGITS == <<"0", "1", "2", "3", "4", "5", "6", "7", "8", "9">>
IsDigit(ch) == \E d \in 1..10 : DIGITS[d] = ch
DigitOf(ch) == (CHOOSE d \in 1..10 : DIGITS[d] = ch) - 1

Num(v) == [nan |-> FALSE, v |-> v]
NaN == [nan |-> TRUE, v |-> 0]

\* the leading white space parseInt and parseFloat skip
RECURSIVE TrimStart(_)
TrimStart(str) ==
    IF str # <<>> /\ str[1] = " " THEN TrimStart(Tail(str)) ELSE str

\* the digits str starts with: their number and their value
RECURSIVE LeadingDigits(_, _, _)
LeadingDigits(str, n, v) ==
    IF str # <<>> /\ IsDigit(str[1])
    THEN LeadingDigits(Tail(str), n + 1, 10 * v + DigitOf(str[1]))
    ELSE [n |-> n, v |-> v, rest |-> str]

\* an optional sign
SignOf(str) == IF str # <<>> /\ str[1] = "-" THEN -1 ELSE 1
Unsigned(str) == IF str # <<>> /\ str[1] \in {"-", "+"} THEN Tail(str) ELSE str

\* parseInt(str, 10)
ParseInt(str) ==
    LET s == TrimStart(str)
        d == LeadingDigits(Unsigned(s), 0, 0)
    IN  IF d.n = 0 THEN NaN ELSE Num(SignOf(s) * d.v)

\* parseFloat(str), in 1/MILLI
ParseFloat(str) ==
    LET s == TrimStart(str)
        whole == LeadingDigits(Unsigned(s), 0, 0)
        frac == IF whole.rest # <<>> /\ whole.rest[1] = "."
                THEN LeadingDigits(Tail(whole.rest), 0, 0)
                ELSE [n |-> 0, v |-> 0, rest |-> whole.rest]
        scaled == CASE frac.n = 0 -> 0
                    [] frac.n = 1 -> frac.v * (MILLI \div 10)
                    [] frac.n = 2 -> frac.v * (MILLI \div 100)
                    [] OTHER -> frac.v
    IN  IF whole.n = 0 /\ frac.n = 0 THEN NaN
        ELSE Num(SignOf(s) * (whole.v * MILLI + scaled))

\* clamp(v, min, max) == Math.max(min, Math.min(max, v)): NaN stays NaN
ClampLimit(v, min, max) ==
    IF v.nan THEN NaN ELSE Num(Max(min, Min(max, v.v)))

\* "a || b" on numbers: NaN and 0 are falsy
OrElse(a, b) == IF a.nan \/ a.v = 0 THEN b ELSE a

\* String(n) of a non-negative integer
RECURSIVE IntToString(_)
IntToString(n) ==
    IF n < 10 THEN <<DIGITS[n + 1]>>
    ELSE IntToString(n \div 10) \o <<DIGITS[(n % 10) + 1]>>

\* the decimals of f/MILLI without trailing zeros
RECURSIVE Decimals(_, _)
Decimals(f, unit) ==
    IF f = 0 THEN <<>>
    ELSE <<DIGITS[(f \div (unit \div 10)) + 1]>> \o
         Decimals((f % (unit \div 10)) * 10, unit)

\* String(v) as localStorage.setItem stores it; scale 1 for the integers
NumToString(v, scale) ==
    IF v.nan THEN <<"N", "a", "N">>
    ELSE LET f == v.v % scale
         IN  IntToString(v.v \div scale) \o
             (IF f = 0 THEN <<>> ELSE <<".">> \o Decimals(f, scale))

PREF_KEYS == {"ntb:maxitems", "ntb:concurrency", "ntb:iothreshold"}
Absent == [present |-> FALSE, value |-> <<>>]
Present(str) == [present |-> TRUE, value |-> str]
NoPrefs == [k \in PREF_KEYS |-> Absent]
NoCall == [op |-> "none", key |-> "", threw |-> FALSE, raised |-> FALSE,
           value |-> <<>>]
Unread == [read |-> FALSE, maxItems |-> NaN, concurrency |-> NaN,
           threshold |-> NaN]

\* the defaults the script passes to getPref, as strings
DefaultOf(key) ==
    CASE key = "ntb:maxitems" -> IntToString(DEFAULT_MAX_ITEMS)
      [] key = "ntb:concurrency" -> IntToString(DEFAULT_CONCURRENCY)
      [] OTHER -> NumToString(Num(DEFAULT_THRESHOLD), MILLI)

\* getPref(key, def) over the store store; throws: storage.get throws.  The
\* result is what the caller gets: a value, or the exception
GetPref(store, key, def, throws) ==
    IF throws
    THEN [op |-> "get", key |-> key, threw |-> TRUE, raised |-> TRUE,
          value |-> <<>>]
    ELSE [op |-> "get", key |-> key, threw |-> FALSE, raised |-> FALSE,
          value |-> IF store[key].present THEN store[key].value ELSE def]

\* setPref(key, val): storage.set(key, val)
SetPref(key, val, throws) ==
    [op |-> "set", key |-> key, threw |-> throws, raised |-> throws,
     value |-> val]

\* the top level of the script reads the limits (lines 108-110); an
\* exception of getPref ends the script
ReadLimits(throws) ==
    /\ ~limits.read
    /\ ~call.raised
    /\ LET m == GetPref(prefs, "ntb:maxitems", DefaultOf("ntb:maxitems"), throws)
           c == GetPref(prefs, "ntb:concurrency", DefaultOf("ntb:concurrency"), throws)
           i == GetPref(prefs, "ntb:iothreshold", DefaultOf("ntb:iothreshold"), throws)
       IN  IF m.raised
           THEN call' = m /\ UNCHANGED limits
           ELSE /\ call' = i
                /\ limits' =
                      [read |-> TRUE,
                       maxItems |-> ClampLimit(ParseInt(m.value), MAX_ITEMS_MIN,
                                               MAX_ITEMS_MAX),
                       concurrency |-> ClampLimit(ParseInt(c.value),
                                                  CONCURRENCY_MIN, CONCURRENCY_MAX),
                       threshold |-> ClampLimit(ParseFloat(i.value), 0, MILLI)]
    /\ UNCHANGED <<prefs, clicks>>
    /\ UNCHANGED besidesPrefs

\* what prompt() returns: null or the text typed
NoAnswer == [present |-> FALSE, value |-> <<>>]
ANSWERS ==
    {<<NoAnswer, NoAnswer, NoAnswer>>,
     <<Present(<<"5", "0", "0">>), Present(<<"8">>), Present(<<"0", ".", "5">>)>>,
     <<Present(<<"a", "b", "c">>), Present(<<"0">>), Present(<<"2">>)>>,
     <<Present(<<"9", "9", "9", "9", "9">>), NoAnswer, Present(<<"-", "1">>)>>}

\* the store after the setPref calls of the click handler, of which the
\* first failing one ends the handler
WritesOf(ans) ==
    <<[key |-> "ntb:maxitems", asked |-> ans[1].present,
       val |-> NumToString(ClampLimit(OrElse(ParseInt(ans[1].value), limits.maxItems),
                                   MAX_ITEMS_MIN, MAX_ITEMS_MAX), 1)],
      [key |-> "ntb:concurrency", asked |-> ans[2].present,
       val |-> NumToString(ClampLimit(OrElse(ParseInt(ans[2].value), limits.concurrency),
                                   CONCURRENCY_MIN, CONCURRENCY_MAX), 1)],
      [key |-> "ntb:iothreshold", asked |-> ans[3].present,
       val |-> NumToString(ClampLimit(OrElse(ParseFloat(ans[3].value), limits.threshold),
                                   0, MILLI), MILLI)]>>

RECURSIVE StoreAfter(_, _)
StoreAfter(store, writes) ==
    IF writes = <<>> THEN store
    ELSE StoreAfter(IF writes[1].asked
                    THEN [store EXCEPT ![writes[1].key] = Present(writes[1].val)]
                    ELSE store,
                    Tail(writes))

\* the click handler of the Limits button (lines 151-159): three prompts,
\* a setPref for each answer, location.reload()
LimitsClick(ans, throws) ==
    /\ limits.read
    /\ clicks < MaxClicks
    /\ clicks' = clicks + 1
    /\ LET writes == WritesOf(ans)
           asked == {k \in 1..3 : writes[k].asked}
       IN  IF asked = {}
           THEN /\ UNCHANGED <<prefs, call>>
                /\ limits' = Unread
           ELSE IF throws
           THEN LET k == CHOOSE j \in asked : \A l \in asked : j <= l
                IN  /\ call' = SetPref(writes[k].key, writes[k].val, TRUE)
                    /\ UNCHANGED <<prefs, limits>>
           ELSE LET k == CHOOSE j \in asked : \A l \in asked : j >= l
                IN  /\ call' = SetPref(writes[k].key, writes[k].val, FALSE)
                    /\ prefs' = StoreAfter(prefs, writes)
                    /\ limits' = Unread
    /\ UNCHANGED besidesPrefs

\* what the store can hold under the three keys
STORED_MAX_ITEMS ==
    {Absent, Present(<<"5", "0", "0">>), Present(<<"9", "9", "9", "9", "9">>),
     Present(<<" ", "2", "5", "0", "p", "x">>), Present(<<"a", "b", "c">>),
     Present(<<>>)}
STORED_CONCURRENCY ==
    {Absent, Present(<<"8">>), Present(<<"0">>), Present(<<"-", "3">>),
     Present(<<"N", "a", "N">>)}
STORED_THRESHOLD ==
    {Absent, Present(<<"0", ".", "5">>), Present(<<"2">>),
     Present(<<"-", "0", ".", "2", "5">>), Present(<<".", "5">>),
     Present(<<"h", "a", "l", "f">>)}
STORES ==
    {[k \in PREF_KEYS |->
        CASE k = "ntb:maxitems" -> m
          [] k = "ntb:concurrency" -> c
          [] OTHER -> i] :
     m \in STORED_MAX_ITEMS, c \in STORED_CONCURRENCY, i \in STORED_THRESHOLD}

\* the store holds store and the script has not started
Stored(store) ==
    /\ prefs = store
    /\ limits = Unread
    /\ call = NoCall
    /\ clicks = 0

NextPrefs ==
    \/ \E throws \in BOOLEAN : ReadLimits(throws)
    \/ \E ans \in ANSWERS, throws \in BOOLEAN : LimitsClick(ans, throws)

(***************************************************************************)
(* The build script (src/unnamed/part_001, lines 1-15).  A file on disk is *)
(* [exists, text], a text the sequence of its characters.                  *)
(***************************************************************************)
FILES == <<"src/header.js", "src/config.js", "src/utils.js", "src/dom.js",
           "src/ui.js", "src/main.js", "src/footer.js">>
NEWLINE == "\n"
NoFile == [exists |-> FALSE, text |-> <<>>]
File(text) == [exists |-> TRUE, text |-> text]
FRAGMENT_TEXTS == {<<"a">>, <<"b", NEWLINE>>}
OLD_ARTIFACT == File(<<"o", "l", "d">>)

RECURSIVE JoinWith(_, _)
JoinWith(texts, sep) ==
    IF texts = <<>> THEN <<>>
    ELSE IF Len(texts) = 1 THEN texts[1]
    ELSE texts[1] \o sep \o JoinWith(Tail(texts), sep)

\* a variant that puts nothing between the texts
JoinBare(texts) == JoinWith(texts, <<>>)

\* Array.prototype.join('\n')
Join(texts) == JoinWith(texts, <<NEWLINE>>)

NotStarted == [pc |-> "start", read |-> <<>>, error |-> "none", log |-> "none"]

\* "files.map(f => fs.readFileSync(f, 'utf8'))": the next fragment is read;
\* a fragment that cannot be read throws and ends the script
ReadFragment ==
    /\ build.pc \in {"start", "reading"}
    /\ Len(build.read) < Len(FILES)
    /\ LET f == fragments[Len(build.read) + 1]
       IN  build' = IF f.exists
                    THEN [build EXCEPT !.pc = "reading",
                                       !.read = Append(@, f.text)]
                    ELSE [build EXCEPT !.pc = "failed", !.error = "read"]
    /\ UNCHANGED <<fragments, artifact>>
    /\ UNCHANGED besidesBuild

\* "fs.writeFileSync('NiceThumbsBuddy.user.js', output)" and the log line;
\* denied: the file cannot be opened for writing and the call throws
WriteArtifact(denied) ==
    /\ build.pc = "reading"
    /\ Len(build.read) = Len(FILES)
    /\ IF denied
       THEN /\ build' = [build EXCEPT !.pc = "failed", !.error = "write"]
            /\ UNCHANGED artifact
       ELSE /\ artifact' = File(Join(build.read))
            /\ build' = [build EXCEPT !.pc = "built",
                                      !.log = "Built NiceThumbsBuddy.user.js"]
    /\ UNCHANGED fragments
    /\ UNCHANGED besidesBuild

\* the disks the build can start on
DISKS == [1..Len(FILES) -> {NoFile} \cup {File(x) : x \in FRAGMENT_TEXTS}]

\* the disk holds the fragments fs and the artifact a; the script has not run
Disk(fs, a) ==
    /\ fragments = fs
    /\ artifact = a
    /\ build = NotStarted

NextBuild ==
    \/ ReadFragment
    \/ \E denied \in BOOLEAN : WriteArtifact(denied)

(***************************************************************************)
(* The sitemap crawler.  The userscripts hold its limit SCAN_CONCURRENCY   *)
(* and its styles only; the session below follows the description of the   *)
(* crawler: a breadth-first expansion from the root with a frontier of     *)
(* (url, depth), a visited set, a cap on the fetches in flight, and the    *)
(* states idle, running, stopped and completed.                            *)
(***************************************************************************)
ROOT == "/"

\* the directory anchors of each listing of the site, in document order:
\* five folders under the root, a chain three levels deep, a link back to
\* the root, a link of a page to itself and a second path to "/a/x/"
Links(u) ==
    CASE u = "/"     -> <<"/a/", "/b/", "/c/", "/d/", "/e/">>
      [] u = "/a/"   -> <<"/", "/a/", "/a/x/">>
      [] u = "/b/"   -> <<"/a/x/">>
      [] u = "/a/x/" -> <<"/a/x/y/">>
      [] OTHER       -> <<>>

\* what a page fetch ends with: a listing, a page that is no listing, an error
OUTCOMES == {"listing", "notListing", "failed"}

DEPTH_LIMITS == 0..MaxCrawlDepth
PAGE_LIMITS == 1..MaxCrawlPages
CONCURRENCIES == {CONCURRENCY_MIN, CONCURRENCY_MIN + 1, DEFAULT_CONCURRENCY}

Item(u, d) == [url |-> u, depth |-> d]

CrawlIdle ==
    [state |-> "idle", maxDepth |-> 0, maxPages |-> 0, concurrency |-> 0,
     frontier |-> <<>>, visited |-> {}, flying |-> {}, scanned |-> 0,
     tree |-> {}, fetches |-> 0, atStop |-> {}, stopFetches |-> 0]

\* the directories of links that are not in seen, in order, each once
RECURSIVE Unvisited(_, _)
Unvisited(links, seen) ==
    IF links = <<>> THEN <<>>
    ELSE IF links[1] \in seen THEN Unvisited(Tail(links), seen)
    ELSE <<links[1]>> \o Unvisited(Tail(links), seen \cup {links[1]})

Range(s) == {s[i] : i \in 1..Len(s)}

\* the items a completed page adds to the frontier
Children(item, seen) ==
    LET fresh == Unvisited(Links(item.url), seen)
    IN  [i \in 1..Len(fresh) |-> Item(fresh[i], item.depth + 1)]

\* "directories are enqueued for expansion only if the session's depth bound
\* has not been reached and the total scanned-page count is below the maximum"
\* a variant that does not look at the depth
MayEnqueueAnyDepth(c, item) ==
    c.state = "running" /\ c.scanned < c.maxPages

MayEnqueue(c, item) ==
    /\ c.state = "running"
    /\ item.depth < c.maxDepth
    /\ c.scanned < c.maxPages

\* a variant that takes the next item whatever is in flight
SlotFreeAlways(c) == TRUE

\* "as slots free up, the next frontier item is dequeued"
SlotFree(c) == Cardinality(c.flying) < c.concurrency

\* a variant that completes a session whatever its state
EndsCompletedAlways(c, scanned, frontier, flying) ==
    scanned >= c.maxPages \/ (frontier = <<>> /\ flying = {})

\* "completed when the frontier empties or the page cap is reached,
\* whichever first": only a running session completes
EndsCompleted(c, scanned, frontier, flying) ==
    /\ c.state = "running"
    /\ scanned >= c.maxPages \/ (frontier = <<>> /\ flying = {})

\* the user starts a scan: idle -> running, the root is the first item
StartScan(D, P, n) ==
    /\ crawl.state = "idle"
    /\ crawl' = [CrawlIdle EXCEPT !.state = "running", !.maxDepth = D,
                                  !.maxPages = P, !.concurrency = n,
                                  !.frontier = <<Item(ROOT, 0)>>,
                                  !.visited = {ROOT}]
    /\ UNCHANGED besidesCrawl

\* a slot is free: the next frontier item is dequeued and its page fetched
Dequeue ==
    /\ crawl.state = "running"
    /\ crawl.frontier # <<>>
    /\ SlotFree(crawl)
    /\ crawl' = [crawl EXCEPT !.frontier = Tail(@),
                              !.flying = @ \cup {Head(crawl.frontier)},
                              !.fetches = @ + 1]
    /\ UNCHANGED besidesCrawl

\* a fetch in flight ends: its node is merged into the tree, a listing's
\* directories are enqueued, the page is counted, the session may complete
FetchCompletes(item, outcome) ==
    /\ item \in crawl.flying
    /\ LET enqueue  == outcome = "listing" /\ MayEnqueue(crawl, item)
           added    == IF enqueue THEN Children(item, crawl.visited) ELSE <<>>
           frontier == crawl.frontier \o added
           flying   == crawl.flying \ {item}
           scanned  == crawl.scanned + 1
       IN  crawl' = [crawl EXCEPT
                !.frontier = frontier,
                !.visited = @ \cup {x.url : x \in Range(added)},
                !.flying = flying,
                !.scanned = scanned,
                !.tree = @ \cup {[url |-> item.url, depth |-> item.depth,
                                  error |-> outcome # "listing"]},
                !.state = IF EndsCompleted(crawl, scanned, frontier, flying)
                          THEN "completed" ELSE @]
    /\ UNCHANGED besidesCrawl

\* the user stops the scan: running -> stopped, the frontier is cleared
StopScan ==
    /\ crawl.state = "running"
    /\ crawl' = [crawl EXCEPT !.state = "stopped", !.frontier = <<>>,
                              !.atStop = crawl.flying,
                              !.stopFetches = crawl.fetches]
    /\ UNCHANGED besidesCrawl

\* the crawler holds the session c
Crawler(c) == crawl = c

NextCrawl ==
    \/ \E D \in DEPTH_LIMITS, P \in PAGE_LIMITS, n \in CONCURRENCIES :
          StartScan(D, P, n)
    \/ Dequeue
    \/ \E item \in crawl.flying, outcome \in OUTCOMES :
          FetchCompletes(item, outcome)
    \/ StopScan

(***************************************************************************)
(* debounce(fn, ms) with the default ms = DEBOUNCE_DELAY.  A call is       *)
(* [at, arg, fate], a pending timeout [due, arg, call], a run of fn        *)
(* [at, arg, call, seen]: the call it serves and the calls made before it. *)
(* A timer fires before the clock passes its due time.                     *)
(***************************************************************************)
DEBOUNCE_DELAY == 150
DebTickMs == DEBOUNCE_DELAY \div 3
ARGS == {"x", "y"}

NoCalls == [clock |-> 0, timers |-> {}, calls |-> <<>>, runs |-> <<>>]

\* a variant that leaves the pending timeout armed
ClearTimeoutKept(timers) == timers
\* "clearTimeout(timeout)"
ClearTimeout(timers) == {}

\* the returned function is called with arg: the pending timeout is cleared
\* and "timeout = setTimeout(() => fn.apply(this, args), ms)"
DebouncedCall(arg) ==
    /\ Len(deb.calls) < MaxDebCalls
    /\ LET kept == ClearTimeout(deb.timers)
           k == Len(deb.calls) + 1
       IN  deb' = [deb EXCEPT
                !.timers = kept \cup {[due |-> deb.clock + DEBOUNCE_DELAY,
                                       arg |-> arg, call |-> k]},
                !.calls = Append([i \in 1..Len(deb.calls) |->
                                    IF \E tm \in deb.timers \ kept : tm.call = i
                                    THEN [deb.calls[i] EXCEPT !.fate = "superseded"]
                                    ELSE deb.calls[i]],
                                 [at |-> deb.clock, arg |-> arg,
                                  fate |-> "pending"])]
    /\ UNCHANGED besidesDebounce

\* the timeout tm is due: "fn.apply(this, args)"
DebounceFires(tm) ==
    /\ tm \in deb.timers
    /\ deb.clock >= tm.due
    /\ deb' = [deb EXCEPT
            !.timers = @ \ {tm},
            !.calls[tm.call].fate = "ran",
            !.runs = Append(@, [at |-> deb.clock, arg |-> tm.arg,
                                call |-> tm.call, seen |-> Len(deb.calls)])]
    /\ UNCHANGED besidesDebounce

DebTick ==
    /\ deb.clock < MaxDebTicks * DebTickMs
    /\ LET next == deb.clock + DebTickMs
           dues == {tm.due : tm \in deb.timers}
       IN  deb' = [deb EXCEPT !.clock = IF dues = {} THEN next
                                        ELSE Min(next, SetMin(dues))]
    /\ deb'.clock > deb.clock
    /\ UNCHANGED besidesDebounce

\* the debounced function and its history are d
Debounced(d) == deb = d

NextDebounce ==
    \/ \E arg \in ARGS : DebouncedCall(arg)
    \/ \E tm \in deb.timers : DebounceFires(tm)
    \/ DebTick

(***************************************************************************)
(* The specifications.                                                     *)
(***************************************************************************)
InitProbe ==
    /\ Construct(NoSession, StartTime)
    /\ SetupLightbox("body")
    /\ Document(NoDoc)
    /\ Listing(<<>>)
    /\ Profile({})
    /\ Served(<<>>)
    /\ Stored(NoPrefs)
    /\ Disk(<<>>, NoFile)
    /\ Crawler(CrawlIdle)
    /\ Debounced(NoCalls)

SpecProbe == InitProbe /\ [][NextProbe]_vars

InitStore ==
    /\ \E s \in InitSessions : Construct(s, StartTime)
    /\ SetupLightbox("body")
    /\ Document(NoDoc)
    /\ Listing(<<>>)
    /\ Profile({})
    /\ Served(<<>>)
    /\ Stored(NoPrefs)
    /\ Disk(<<>>, NoFile)
    /\ Crawler(CrawlIdle)
    /\ Debounced(NoCalls)

SpecStore == InitStore /\ [][NextStore]_vars

InitLightbox ==
    /\ SetupLightbox("body")
    /\ Construct(NoSession, StartTime)
    /\ Document(NoDoc)
    /\ Listing(<<>>)
    /\ Profile({})
    /\ Served(<<>>)
    /\ Stored(NoPrefs)
    /\ Disk(<<>>, NoFile)
    /\ Crawler(CrawlIdle)
    /\ Debounced(NoCalls)

SpecLightbox == InitLightbox /\ [][NextLb]_vars

InitDetect ==
    /\ \E d \in DOCS : Document(d)
    /\ Construct(NoSession, StartTime)
    /\ SetupLightbox("body")
    /\ Listing(<<>>)
    /\ Profile({})
    /\ Served(<<>>)
    /\ Stored(NoPrefs)
    /\ Disk(<<>>, NoFile)
    /\ Crawler(CrawlIdle)
    /\ Debounced(NoCalls)

SpecDetect == InitDetect /\ [][NextDetect]_vars

InitToast ==
    /\ Construct(NoSession, StartTime)
    /\ SetupLightbox("body")
    /\ Document(NoDoc)
    /\ Listing(<<>>)
    /\ Profile({})
    /\ Served(<<>>)
    /\ Stored(NoPrefs)
    /\ Disk(<<>>, NoFile)
    /\ Crawler(CrawlIdle)
    /\ Debounced(NoCalls)

SpecToast == InitToast /\ [][NextToast]_vars

InitBoot ==
    /\ \E prof \in {{}, {WELCOMED}} : Profile(prof)
    /\ Construct(NoSession, StartTime)
    /\ SetupLightbox("body")
    /\ Document(NoDoc)
    /\ Listing(<<>>)
    /\ Served(<<>>)
    /\ Stored(NoPrefs)
    /\ Disk(<<>>, NoFile)
    /\ Crawler(CrawlIdle)
    /\ Debounced(NoCalls)

SpecBoot == InitBoot /\ [][NextBoot]_vars

InitRender ==
    /\ \E b \in BODIES : Served(b)
    /\ Construct(NoSession, StartTime)
    /\ SetupLightbox("body")
    /\ Document(NoDoc)
    /\ Listing(<<>>)
    /\ Profile({})
    /\ Stored(NoPrefs)
    /\ Disk(<<>>, NoFile)
    /\ Crawler(CrawlIdle)
    /\ Debounced(NoCalls)

SpecRender == InitRender /\ [][NextRender]_vars

InitPrefs ==
    /\ \E store \in STORES : Stored(store)
    /\ Construct(NoSession, StartTime)
    /\ SetupLightbox("body")
    /\ Document(NoDoc)
    /\ Listing(<<>>)
    /\ Profile({})
    /\ Served(<<>>)
    /\ Disk(<<>>, NoFile)
    /\ Crawler(CrawlIdle)
    /\ Debounced(NoCalls)

SpecPrefs == InitPrefs /\ [][NextPrefs]_vars

InitBuild ==
    /\ \E fs \in DISKS, a \in {NoFile, OLD_ARTIFACT} : Disk(fs, a)
    /\ Construct(NoSession, StartTime)
    /\ SetupLightbox("body")
    /\ Document(NoDoc)
    /\ Listing(<<>>)
    /\ Profile({})
    /\ Served(<<>>)
    /\ Stored(NoPrefs)
    /\ Crawler(CrawlIdle)
    /\ Debounced(NoCalls)

SpecBuild == InitBuild /\ [][NextBuild]_vars

InitParse ==
    /\ \E l \in LISTINGS : Listing(l)
    /\ Construct(NoSession, StartTime)
    /\ SetupLightbox("body")
    /\ Document(NoDoc)
    /\ Profile({})
    /\ Served(<<>>)
    /\ Stored(NoPrefs)
    /\ Disk(<<>>, NoFile)
    /\ Crawler(CrawlIdle)
    /\ Debounced(NoCalls)

SpecParse == InitParse /\ [][NextParse]_vars

InitCrawl ==
    /\ Crawler(CrawlIdle)
    /\ Construct(NoSession, StartTime)
    /\ SetupLightbox("body")
    /\ Document(NoDoc)
    /\ Listing(<<>>)
    /\ Profile({})
    /\ Served(<<>>)
    /\ Stored(NoPrefs)
    /\ Disk(<<>>, NoFile)
    /\ Debounced(NoCalls)

SpecCrawl == InitCrawl /\ [][NextCrawl]_vars

InitLive ==
    /\ Construct(NoSession, StartTime)
    /\ SetupLightbox("body")
    /\ Document(NoDoc)
    /\ Listing(<<>>)
    /\ Profile({})
    /\ Served(<<>>)
    /\ Stored(NoPrefs)
    /\ Disk(<<>>, NoFile)
    /\ Crawler(CrawlIdle)
    /\ Debounced(NoCalls)

SpecLive == InitLive /\ [][NextLive]_vars /\ FairLive

InitCleanup ==
    /\ Construct(NoSession, StartTime)
    /\ SetupLightbox("body")
    /\ Document(NoDoc)
    /\ Listing(<<>>)
    /\ Profile({})
    /\ Served(<<>>)
    /\ Stored(NoPrefs)
    /\ Disk(<<>>, NoFile)
    /\ Crawler(CrawlIdle)
    /\ Debounced(NoCalls)

SpecCleanup == InitCleanup /\ [][NextCleanup]_vars

InitDebounce ==
    /\ Debounced(NoCalls)
    /\ Construct(NoSession, StartTime)
    /\ SetupLightbox("body")
    /\ Document(NoDoc)
    /\ Listing(<<>>)
    /\ Profile({})
    /\ Served(<<>>)
    /\ Stored(NoPrefs)
    /\ Disk(<<>>, NoFile)
    /\ Crawler(CrawlIdle)

SpecDebounce == InitDebounce /\ [][NextDebounce]_vars

(***************************************************************************)
(* Claims about the metadata manager.                                      *)
(***************************************************************************)
\* a call of noteImageSize that puts a record under u, a URL the cache does
\* not hold, while the storage does not report a full quota
InsertsRecord(u) ==
    /\ ~CacheHas(cache, u)
    /\ \E d \in DIMS, wr \in WRITES \ {"quota"} : NoteImageSize(u, d, wr)

\* C1: after a record of a new URL is inserted and saveThrottled() is
\* called, at any time, the cache holds at most CACHE_MAX_SIZE records and
\* the record just inserted is its latest one (SpecStore).
C1_CacheBoundedAfterInsert ==
    [][\A u \in {"a.jpg", Anon} :
          InsertsRecord(u) =>
              /\ CacheSize(cache') <= CACHE_MAX_SIZE
              /\ cache' # <<>>
              /\ cache'[Len(cache')].url = u]_vars

\* C2: when a probe succeeds, the record it leaves for its URL still holds
\* the width and height that were known before (SpecProbe).
C2_ProbeKeepsDimensions ==
    [][\A i \in 1..Len(probes) :
          (ProbeSucceeds(i, "ok") /\ ~DimsMissing(CacheGet(cache, probes[i].url)))
          => /\ CacheGet(cache', probes[i].url).width
                  = CacheGet(cache, probes[i].url).width
             /\ CacheGet(cache', probes[i].url).height
                  = CacheGet(cache, probes[i].url).height]_vars

\* no two running probes have the same URL
OneProbePerUrl ==
    \A i, j \in 1..Len(probes) : probes[i].url = probes[j].url => i = j

\* the step starts a probe
StartsProbe == Len(probes') = Len(probes) + 1

\* C3: at most one probe per URL is in flight at any time, and a probe is
\* started only for a URL that has no cached record and is not in flight,
\* and only while the preference is not stored as 'false' (SpecProbe).
C3_ProbeStartGuard ==
    /\ []OneProbePerUrl
    /\ [][StartsProbe =>
            LET u == probes'[Len(probes')].url
            IN  /\ ~CacheHas(cache, u)
                /\ u \notin inFlight
                /\ \A i \in 1..Len(probes) : probes[i].url # u
                /\ advPref # "false"]_vars

\* C3 witness: both observed URLs are being probed at the same time
C3_Witness == inFlight = URLS /\ Len(probes) = Cardinality(URLS)

\* what holds of every running probe
ProbeRequestsBounded ==
    \A i \in 1..Len(probes) :
        LET p == probes[i]
        IN  /\ p.sent <= 2
            /\ p.phase = "sleep" => p.sent = 1 /\ p.errs = <<"TypeError">>
            /\ p.sent = 2 => /\ p.errs = <<"TypeError">>
                             /\ p.slept >= RETRY_DELAY_MS

\* the step ends probe i in failure
EndsInFailure(i) ==
    \/ ProbeTimesOut(i) /\ Len(probes') < Len(probes)
    \/ \E resp \in RESPONSES : ProbeFails(i, resp) /\ Len(probes') < Len(probes)

\* C4: a probe issues at most two requests; the second one follows a first
\* attempt that failed with a network-class error, RETRY_DELAY_MS later; a
\* timeout or a non-success status ends the probe at once; and a probe that
\* ends in failure leaves the cache as it was (SpecProbe).
C4_RetryOnceOnNetworkError ==
    /\ []ProbeRequestsBounded
    /\ [][\A i \in 1..Len(probes) :
            /\ ProbeTimesOut(i) => Len(probes') < Len(probes)
            /\ ProbeFails(i, "http") => Len(probes') < Len(probes)
            /\ (ProbeFails(i, "network") /\ probes[i].sent = 1) =>
                  /\ Len(probes') = Len(probes)
                  /\ probes'[i].phase = "sleep"
                  /\ probes'[i].due = now + RETRY_DELAY_MS
            /\ EndsInFailure(i) => cache' = cache /\ session' = session]_vars

\* C4 witness: a probe is on its second request, sent after the delay
C4_Witness ==
    \E i \in 1..Len(probes) :
        /\ probes[i].sent = 2
        /\ probes[i].phase = "fetch"
        /\ probes[i].slept = RETRY_DELAY_MS

\* C5: a construction loads records only from a mirror whose stored expiry
\* is later than the current time; with an expired or missing expiry the
\* cache starts empty and both stored keys are removed (SpecStore).
C5_LoadOnlyUnexpired ==
    loaded.fresh =>
        /\ cache # <<>> => loaded.hasExpiry /\ loaded.expiry > loaded.at
        /\ ~(loaded.hasExpiry /\ loaded.expiry > loaded.at) =>
              cache = <<>> /\ session = NoSession

\* C5 witness: a page was constructed at the very millisecond a stored
\* mirror with records expired, and it dropped the mirror
C5_Witness ==
    /\ reloads > 0
    /\ loaded.fresh
    /\ loaded.stored > 0
    /\ loaded.expiry = loaded.at
    /\ cache = <<>>
    /\ session = NoSession

\* the step is a save that ran into a full quota
QuotaFailure ==
    /\ ~ThrottleDrops(now, lastCall)
    /\ \E u \in {"a.jpg", Anon}, d \in DIMS :
          DimsMissing(CacheGet(cache, u)) /\ NoteImageSize(u, d, "quota")

\* C6: a save that fails on the storage quota removes both stored keys,
\* empties the cache and shows a warning notification (SpecStore).
C6_QuotaClearsCache ==
    [][QuotaFailure =>
          /\ session' = NoSession
          /\ cache' = <<>>
          /\ toasts' # <<>>
          /\ toasts'[Len(toasts')] = [id |-> toastSeq', type |-> "warning",
                                      duration |-> NOTIFY_DURATION_MS]
          /\ toastSeq' = toastSeq + 1]_vars

\* C6 witness: a save has just run and the warning is on screen over an
\* emptied cache and mirror
C6_Witness ==
    /\ toasts # <<>>
    /\ toasts[1].type = "warning"
    /\ cache = <<>>
    /\ session = NoSession
    /\ lastCall = now

(***************************************************************************)
(* Claims about the lightbox.                                              *)
(***************************************************************************)
\* C7: in every state of the lightbox the scale st.z is at least 0.5 and at
\* most 6 (SpecLightbox).
C7_ScaleWithinBounds == ZMIN <= st.z /\ st.z <= ZMAX

\* the step zooms in: the control '+' or the wheel turned up
ZoomsIn ==
    \/ LbClick("+")
    \/ \E c \in CURSORS, mod \in BOOLEAN : LbWheel(c, FALSE, mod)

\* the step zooms out: the control '-' or the wheel turned down
ZoomsOut ==
    \/ LbClick("-")
    \/ \E c \in CURSORS, mod \in BOOLEAN : LbWheel(c, TRUE, mod)

\* the step resets: the control 'reset' or the key '0'
Resets == LbClick("reset") \/ LbKeyReset

\* C8: from whatever state, a zoom-in leaves the scale at most 6, a zoom-out
\* leaves it at least 0.5, and a reset leaves the scale exactly 1 and the
\* pan exactly (0, 0) (SpecLightbox).
C8_ZoomClampedResetExact ==
    [][/\ ZoomsIn => st'.z <= ZMAX
       /\ ZoomsOut => st'.z >= ZMIN
       /\ Resets => st'.z = ZUNIT /\ st'.x = 0 /\ st'.y = 0]_vars

\* C8 witness: zooming in on the small image, filled or not, has been
\* stopped at the largest scale
C8_Witness == zooms > 0 /\ st.z = ZMAX /\ st.w = ITEMS[1][1]

\* C9: closing the lightbox gives the focus back to the element that had it
\* when the lightbox opened, whatever navigation happened in between
\* (SpecLightbox).
C9_CloseRestoresFocus == [][LbClose => focus' = opener]_vars

(***************************************************************************)
(* Claims about the detector.                                              *)
(***************************************************************************)
\* the directory-pattern cue: the listing pattern in the pre block or a
\* listing heading in the table
PatternCue(d) == (d.hasPre /\ d.preListing) \/ (d.hasTable /\ d.headings)

\* the anchors with an href that is neither mailto: nor javascript:
FunctionalLinks(d) ==
    Cardinality({k \in 1..Len(d.anchors) :
                    d.anchors[k].scheme \notin {"", "mailto:", "javascript:"}})

\* C10: looksLikeAutoIndex returns true exactly when the document has an
\* index title, a parent-directory anchor, a directory-pattern cue or both
\* a pre block and a table, and at least 3 functional links (SpecDetect).
C10_DetectorDecision ==
    verdict # "none" =>
        /\ verdict = "true" <=>
              /\ \/ HasIndexTitle(doc.title)
                 \/ HasParentLink(doc)
                 \/ PatternCue(doc)
                 \/ doc.hasPre /\ doc.hasTable
              /\ FunctionalLinks(doc) >= 3
        /\ FunctionalLinks(doc) < 3 => verdict = "false"

\* C10 witness: a document with a pre block whose listing matches, a table
\* whose headings do not, no other cue and 3 functional links was accepted
C10_Witness ==
    /\ verdict = "true"
    /\ doc.hasPre /\ doc.preListing
    /\ doc.hasTable /\ ~doc.headings
    /\ ~HasIndexTitle(doc.title)
    /\ ~HasParentLink(doc)
    /\ FunctionalLinks(doc) = 3

(***************************************************************************)
(* Claims about parseIndex and getFolderType.                              *)
(***************************************************************************)
\* the buckets parseIndex returned
Buckets == {parsed.dirs, parsed.images, parsed.files}

\* the anchors of the listing that are told apart and yield an entry for url
YieldsEntry(k, url) ==
    /\ listing[k].a.url = url
    /\ listing[k].a.url # AnonHref.url
    /\ Accepted(listing[k])

RECURSIVE AcceptedBefore(_)
AcceptedBefore(k) ==
    IF k <= 1 THEN 0
    ELSE AcceptedBefore(k - 1)
            + (IF Accepted(listing[k - 1]) THEN listing[k - 1].n ELSE 0)

\* the URLs parseIndex returned
ParsedUrls == UNION {{b[i].url : i \in 1..Len(b)} : b \in Buckets}

\* C12: the buckets together hold at most MAX_ITEMS_PAGE entries, and an
\* anchor that follows the one with which the accepted entries reached
\* MAX_ITEMS_PAGE contributes nothing: a URL of such an anchor is returned
\* only if an anchor before the stop had it (SpecParse).
C12_StopsAtPageMaximum ==
    parsed.done =>
        /\ Count(parsed.dirs) + Count(parsed.images) + Count(parsed.files)
              <= MAX_ITEMS_PAGE
        /\ \A k \in 1..Len(listing) :
              (AcceptedBefore(k) >= MAX_ITEMS_PAGE /\ listing[k].a.url \in ParsedUrls
                  /\ listing[k].a.url # AnonHref.url)
              => \E m \in 1..(k - 1) :
                    /\ YieldsEntry(m, listing[k].a.url)
                    /\ AcceptedBefore(m) < MAX_ITEMS_PAGE

\* C12 witness: the listing's second anchor filled the page and its third
\* one, which would have been accepted, is not in the result
C12_Witness ==
    /\ parsed.done
    /\ Len(listing) = 3
    /\ AcceptedBefore(2) = MAX_ITEMS_PAGE - 1
    /\ AcceptedBefore(3) = MAX_ITEMS_PAGE
    /\ Accepted(listing[3])
    /\ listing[3].a.url \notin ParsedUrls
    /\ Count(parsed.dirs) + Count(parsed.images) + Count(parsed.files)
          = MAX_ITEMS_PAGE

\* the names of the examples
SummerVacationPhotos == <<"S", "u", "m", "m", "e", "r", " ", "V", "a", "c", "a", "t", "i", "o", "n", " ", "P", "h", "o", "t", "o", "s">>
Backup2023 == <<"B", "a", "c", "k", "u", "p", "_", "2", "0", "2", "3">>
Notes == <<"N", "o", "t", "e", "s">>
AssortedStuff == <<"A", "s", "s", "o", "r", "t", "e", "d", " ", "S", "t", "u", "f", "f">>

\* every directory entry named name has the type type
DirsNamed(name, type) ==
    \A i \in 1..Len(parsed.dirs) :
        parsed.dirs[i].name = name => parsed.dirs[i].type = type

\* C13 as stated: "Summer Vacation Photos" is a photo folder, "Backup_2023"
\* an archive, "Notes" a document folder and "Assorted Stuff" a default one
\* (SpecParse).
C13_FolderTypesAsStated ==
    parsed.done =>
        /\ DirsNamed(SummerVacationPhotos, "photo")
        /\ DirsNamed(Backup2023, "archive")
        /\ DirsNamed(Notes, "document")
        /\ DirsNamed(AssortedStuff, "default")

\* C13 amended: "Summer Vacation Photos" is a photo folder, "Backup_2023"
\* an archive, and both "Notes" and "Assorted Stuff" are default folders: no
\* term of the document group occurs in "notes" (SpecParse).
C13_FolderTypes ==
    parsed.done =>
        /\ DirsNamed(SummerVacationPhotos, "photo")
        /\ DirsNamed(Backup2023, "archive")
        /\ DirsNamed(Notes, "default")
        /\ DirsNamed(AssortedStuff, "default")

\* C13 witness: directories named "Notes" and "Summer Vacation Photos" were
\* parsed as a default and a photo folder
C13_Witness ==
    /\ parsed.done
    /\ \E i, j \in 1..Len(parsed.dirs) :
          /\ parsed.dirs[i].name = Notes /\ parsed.dirs[i].type = "default"
          /\ parsed.dirs[j].name = SummerVacationPhotos
          /\ parsed.dirs[j].type = "photo"

(***************************************************************************)
(* Claims about the notifications.                                         *)
(***************************************************************************)
\* the toasts the document shows before and not after the step
Removed ==
    {toasts[i] : i \in 1..Len(toasts)} \ {toasts'[i] : i \in 1..Len(toasts')}

\* the step runs the callback of the pending timer tm
TimerFires(tm) ==
    /\ tm \in toastTimers
    /\ toastTimers' = toastTimers \ {tm}
    /\ toastSeq' = toastSeq

\* the step is a call of showNotification
Shows == toastSeq' = toastSeq + 1

\* C14: after any sequence of showNotification calls, close clicks and
\* timer expiries the document holds at most one toast; a timer that fires
\* removes its own toast if the document still shows it and no other toast,
\* and it fires no earlier than the duration after the call; a toast
\* created with duration 0 gets no timer, so that only the close control or
\* a later showNotification removes it (SpecToast).
C14_ToastLifecycle ==
    [][/\ Len(toasts') <= 1
       /\ \A tm \in toastTimers :
             TimerFires(tm) =>
                /\ now >= tm.due
                /\ \A x \in Removed : x.id = tm.id /\ x.duration > 0
                /\ \A i \in 1..Len(toasts') : toasts'[i].id # tm.id
       /\ Shows =>
             LET x == toasts'[Len(toasts')]
             IN  /\ toasts' = <<x>>
                 /\ x.id = toastSeq'
                 /\ x.duration > 0 =>
                       toastTimers' = toastTimers \cup
                                        {[id |-> x.id, due |-> now + x.duration]}
                 /\ x.duration = 0 => toastTimers' = toastTimers
       /\ \A i \in 1..Len(toasts') :
             toasts'[i].duration = 0 =>
                \A tm \in toastTimers' : tm.id # toasts'[i].id]_vars

\* C14 witness: the timer of an earlier toast is due while the document
\* shows a later toast that was created with duration 0
C14_Witness ==
    /\ Len(toasts) = 1
    /\ toasts[1].duration = 0
    /\ \E tm \in toastTimers : tm.id < toasts[1].id /\ now >= tm.due

(***************************************************************************)
(* Claims about the bootstrappers.                                         *)
(***************************************************************************)
\* C15: over any sequence of page initialisations that share the profile's
\* storage, the welcome notification is displayed at most once (SpecBoot).
C15_WelcomeAtMostOnce == welcomes <= 1

\* C16: a page on which the detector returns false is left as it was: no
\* style element, no node added, no key written, no listener and no timer
\* (SpecBoot).
C16_NothingOnOtherPages ==
    \A p \in PAGES :
        (pages[p].script # "none" /\ ~LooksLikeAutoIndex(pages[p].doc)) =>
            pages[p] = Untouched(pages[p].script, pages[p].doc, pages[p].toolbar)

(***************************************************************************)
(* Claims about rendering.                                                 *)
(***************************************************************************)
\* C17: after the gallery has rendered on a recognised listing, every pre
\* and table the server sent is still a child of the document (SpecRender).
C17_OriginalKept ==
    renderer # "none" =>
        \A i \in 1..Len(served) :
            served[i].tag \in {"pre", "table"} =>
                \E j \in 1..Len(body) :
                    body[j].id = served[i].id /\ body[j].tag = served[i].tag

(***************************************************************************)
(* Claims about the preference store and the limits.                       *)
(***************************************************************************)
\* C18: a failure of the backing store never reaches the caller: a read
\* that throws behaves as absent and a write that throws returns without
\* an error (SpecPrefs).
C18_StoreFailuresAbsorbed ==
    call.threw =>
        /\ ~call.raised
        /\ call.op = "get" => call.value = DefaultOf(call.key)

\* n is a number between min and max
Within(n, min, max) == ~n.nan /\ min <= n.v /\ n.v <= max

\* C19: whatever strings the store holds under the three keys, the limits
\* read at startup are within [100, 50000], [1, 16] and [0, 1] (SpecPrefs).
C19_LimitsWithinRange ==
    limits.read =>
        /\ Within(limits.maxItems, MAX_ITEMS_MIN, MAX_ITEMS_MAX)
        /\ Within(limits.concurrency, CONCURRENCY_MIN, CONCURRENCY_MAX)
        /\ Within(limits.threshold, 0, MILLI)

(***************************************************************************)
(* Claims about the build.                                                 *)
(***************************************************************************)
\* the texts of the seven fragments with one newline between neighbours
FragmentsInOrder ==
    fragments[1].text \o <<NEWLINE>> \o fragments[2].text \o <<NEWLINE>> \o
    fragments[3].text \o <<NEWLINE>> \o fragments[4].text \o <<NEWLINE>> \o
    fragments[5].text \o <<NEWLINE>> \o fragments[6].text \o <<NEWLINE>> \o
    fragments[7].text

\* C20: the artifact is created or modified only in a step that follows the
\* successful read of every fragment, and then its content is the
\* fragments' texts in the declared order joined by single newlines; a
\* fragment that cannot be read ends the build with an error and leaves the
\* artifact as it was (SpecBuild).
C20_WriteAfterAllRead ==
    [][/\ artifact' # artifact =>
             /\ \A i \in 1..Len(FILES) : fragments[i].exists
             /\ Len(build.read) = Len(FILES)
             /\ artifact' = File(FragmentsInOrder)
       /\ build'.pc = "built" => artifact' = File(FragmentsInOrder)
       /\ (build.pc \in {"start", "reading"} /\ Len(build.read) < Len(FILES)
             /\ ~fragments[Len(build.read) + 1].exists) =>
                /\ build'.pc = "failed" /\ build'.error = "read"
                /\ artifact' = artifact
       /\ build.pc = "failed" => artifact' = artifact]_vars

\* C20 witness: the build has written the artifact from fragments of which
\* the first ends with a newline
C20_Witness ==
    /\ build.pc = "built"
    /\ artifact = File(FragmentsInOrder)
    /\ fragments[1].text = <<"b", NEWLINE>>
    /\ fragments[2].text = <<"a">>

\* the pages the session has fetched or is fetching
Fetched == crawl.tree \cup {[url |-> x.url, depth |-> x.depth, error |-> FALSE] : x \in crawl.flying}

C22_FetchesWithinConcurrency ==
    [][/\ Cardinality(crawl'.flying) <= crawl'.concurrency
       /\ crawl'.fetches > crawl.fetches =>
             /\ Cardinality(crawl.flying) < crawl.concurrency
             /\ crawl'.flying = crawl.flying \cup {Head(crawl.frontier)}
             /\ crawl'.frontier = Tail(crawl.frontier)]_vars

\* four fetches are in flight under the default concurrency while a fifth
\* folder waits on the frontier
C22_Witness ==
    /\ crawl.state = "running"
    /\ crawl.concurrency = DEFAULT_CONCURRENCY
    /\ Cardinality(crawl.flying) = DEFAULT_CONCURRENCY
    /\ crawl.frontier # <<>>

\* the nodes of items that are in the tree
Merged(items) == \A x \in items : \E n \in crawl.tree : n.url = x.url

\* C23: once the user has stopped a running scan no page fetch is started
\* and the frontier is empty; the fetches in flight at the stop complete and
\* their results are merged into the tree; the session stays stopped and
\* never becomes completed
C23_StopIsFinal ==
    [][crawl.state = "stopped" =>
          /\ crawl.frontier = <<>> /\ crawl'.frontier = <<>>
          /\ crawl'.fetches = crawl.stopFetches
          /\ crawl'.state = "stopped"
          /\ crawl'.flying \subseteq crawl.flying
          /\ \A x \in crawl.flying \ crawl'.flying :
                \E n \in crawl'.tree : n.url = x.url /\ n.depth = x.depth
          /\ crawl.tree \subseteq crawl'.tree
          /\ \A x \in crawl.flying :
                \A o \in OUTCOMES : ENABLED FetchCompletes(x, o)]_vars

\* a scan was stopped with two fetches in flight and folders waiting; both
\* fetches have completed since and are in the tree
C23_Witness ==
    /\ crawl.state = "stopped"
    /\ Cardinality(crawl.atStop) >= 2
    /\ crawl.flying = {}
    /\ Merged(crawl.atStop)
    /\ crawl.scanned < crawl.maxPages
    /\ \E u \in crawl.visited : ~Merged({Item(u, 0)})

\* the entries of c other than the one of u, in order
RECURSIVE Others(_, _)
Others(c, u) ==
    IF c = <<>> THEN <<>>
    ELSE IF c[1].url = u THEN Others(Tail(c), u)
         ELSE <<c[1]>> \o Others(Tail(c), u)

RunsOf(k) == {j \in 1..Len(deb.runs) : deb.runs[j].call = k}

\* C25: the wrapped function runs only when ms have elapsed since the most
\* recent call with no call in between, with that call's arguments, and
\* once per burst: a call superseded while its timeout was pending (at most
\* ms after it was made) never executes, every other call executes once
C25_DebounceRunsLastCallOnce ==
    /\ \A j \in 1..Len(deb.runs) :
          LET r == deb.runs[j]
              c == deb.calls[r.call]
          IN  /\ r.call = r.seen
              /\ r.arg = c.arg
              /\ r.at - c.at >= DEBOUNCE_DELAY
              /\ \A i \in 1..Len(deb.calls) :
                    i # r.call => ~(c.at < deb.calls[i].at /\ deb.calls[i].at < r.at)
    /\ \A k \in 1..Len(deb.calls) :
          LET c == deb.calls[k]
          IN  CASE c.fate = "ran" -> Cardinality(RunsOf(k)) = 1
                [] c.fate = "superseded" ->
                      /\ RunsOf(k) = {}
                      /\ k < Len(deb.calls)
                      /\ deb.calls[k + 1].at - c.at <= DEBOUNCE_DELAY
                [] OTHER ->
                      /\ RunsOf(k) = {}
                      /\ k = Len(deb.calls)
                      /\ deb.clock - c.at <= DEBOUNCE_DELAY

\* two bursts: three calls of which the first two were superseded and the
\* third ran with its own argument, then a call that ran on its own
C25_Witness ==
    /\ Len(deb.calls) = 4
    /\ deb.calls[1].fate = "superseded" /\ deb.calls[1].arg = "x"
    /\ deb.calls[2].fate = "superseded" /\ deb.calls[2].at > deb.calls[1].at
    /\ deb.calls[3].fate = "ran" /\ deb.calls[3].arg = "y"
    /\ deb.calls[4].fate = "ran"
    /\ Len(deb.runs) = 2
    /\ deb.runs[1].arg = "y"

\* the step is a call of noteImageSize that reaches saveThrottled(): on a
\* page without probes nothing else writes the cache or runs the persist
CallsSaveThrottled ==
    /\ reloads' = reloads
    /\ cache' # cache \/ lastCall' # lastCall

\* C26: of the calls of a throttled function the first one executes, two
\* executed invocations are at least ms apart and a call less than ms after
\* the last executed invocation is dropped without executing; the metadata
\* mirror is persisted by one page at most once per 1000 ms
C26_ThrottleSpacing ==
    [][/\ CallsSaveThrottled =>
             IF now - lastCall < SAVE_THROTTLE_MS
             THEN /\ lastCall' = lastCall
                  /\ session' = session
                  /\ toasts' = toasts
                  /\ CacheSize(cache') >= CacheSize(cache)
             ELSE /\ lastCall' = now
                  /\ lastCall' - lastCall >= SAVE_THROTTLE_MS
       /\ (CallsSaveThrottled /\ lastCall = 0) => lastCall' = now
       /\ (reloads' = reloads /\ session' # session) =>
             /\ CallsSaveThrottled
             /\ now - lastCall >= SAVE_THROTTLE_MS
             /\ lastCall' = now]_vars

\* three records were put on a page that started without a mirror: the
\* first persisted, the second dropped within the second, the third
\* persisted one second after the first
C26_Witness ==
    /\ reloads = 0
    /\ now = StartTime + SAVE_THROTTLE_MS
    /\ lastCall = now
    /\ CacheSize(cache) = 3
    /\ session.payload = "json"
    /\ session.data = cache
    /\ session.expiry = now + CACHE_EXPIRY

\* the persisted mirror holds the record the cache holds for u
Mirrored(u) ==
    /\ session.payload = "json"
    /\ CacheHas(session.data, u)
    /\ CacheGet(session.data, u) = CacheGet(cache, u)

\* C27: every record written to the cache, by a probe or by noteImageSize,
\* is eventually written to the persisted mirror, also when its persist call
\* falls inside the throttle window of an earlier persist and no further
\* write follows (storage writes succeed, no cleanup)
C27_EveryRecordPersisted ==
    \A u \in URLS : CacheHas(cache, u) ~> Mirrored(u)

\* the step is a call of noteImageSize
CallsNoteImageSize == \E u \in URLS, d \in LOADED_DIMS : NoteImageSize(u, d, "ok")

\* C28: cleanup() leaves the map empty, and the map stays empty and the
\* mirror as it is until observe or noteImageSize is called again: a probe
\* that was in flight when cleanup ran adds no record and does not rewrite
\* the mirror when it completes
C28_EmptyAfterCleanup ==
    [][/\ (observing /\ ~observing') => cache' = <<>>
       /\ (~observing /\ ~observing' /\ cache = <<>> /\ ~CallsNoteImageSize)
             => (cache' = <<>> /\ session' = session)]_vars

\* C29: the observer starts a probe only for a URL of which the cache holds
\* no record of any kind: a record holding only the dimensions noteImageSize
\* stored suppresses the probe of that URL
C29_AnyRecordSuppressesProbe ==
    [][/\ StartsProbe => ~CacheHas(cache, probes'[Len(probes')].url)
       /\ \A u \in URLS :
             (CacheHas(cache, u) /\ ~CacheGet(cache, u).probed)
                => (~ENABLED Visible(u) /\ ~ShouldProbe(u))]_vars

\* a.jpg holds a record with dimensions only and is not in flight while the
\* observer is connected, the preference allows probes and one is running
\* for b.jpg
C29_Witness ==
    /\ CacheHas(cache, "a.jpg")
    /\ ~CacheGet(cache, "a.jpg").probed
    /\ CacheGet(cache, "a.jpg").width > 0
    /\ "a.jpg" \notin inFlight
    /\ observing
    /\ advPref # "false"
    /\ "b.jpg" \in inFlight
    /\ Len(probes) < MaxProbes
    /\ now > StartTime

\* C30: every URL marked in flight is eventually removed from the in-flight
\* set, whether its probe ends in success, a non-success status, a timeout
\* or an exhausted retry; a probe that fails leaves its URL out of the
\* in-flight set and writes no record, so that the observer's guard accepts
\* the URL again when the cache holds no record of it
C30_InFlightEventuallyCleared ==
    /\ \A u \in URLS : (u \in inFlight) ~> (u \notin inFlight)
    /\ [][\A i \in 1..Len(probes) :
            EndsInFailure(i) =>
                /\ probes[i].url \notin inFlight'
                /\ cache' = cache
                /\ (~CacheHas(cache, probes[i].url) /\ advPref # "false")
                      => \E u \in URLS : u = probes[i].url /\ ShouldProbe(u)']_vars

\* the clock has run to the timeout of a probe started with the page: the
\* probe is gone, nothing is in flight and nothing was cached
C30_Witness ==
    /\ now = StartTime + PROBE_TIMEOUT_MS
    /\ probes = <<>>
    /\ inFlight = {}
    /\ cache = <<>>

====
